---- MODULE Spec2Model ----
(***************************************************************************)
(* A model of the markdown-utils library (contentUtils.ts, pathUtils.ts,   *)
(* dateUtils.ts, validationUtils.ts).  A JavaScript string is a sequence   *)
(* of one-character strings; every regular expression of the source is     *)
(* translated into an operator that returns where its match at a position  *)
(* ends, and                                                               *)
(* String.prototype.replace with a /g pattern into a left-to-right scan.   *)
(***************************************************************************)
EXTENDS Integers, Sequences, FiniteSets

VARIABLES
    pc,              \* "input", or the name of the function that was called
    typed,           \* the number of pieces the caller typed
    text,            \* the markdownContent argument
    plain,           \* the result of stripMarkdown(text)
    again,           \* the result of stripMarkdown(plain)
    words,           \* the result of getWordCount(text)
    wordsPerMinute,  \* the wordsPerMinute argument of getReadingTime
    minutes,         \* the result of getReadingTime(text, wordsPerMinute)
    maxLevel,        \* the maxLevel argument of getAllHeadings
    headings,        \* the result of getAllHeadings(text, maxLevel)
    links,           \* the result of extractLinks(text)
    images,          \* the result of extractImages(text)
    filename,        \* the filename argument of filenameToSlug
    slug,            \* the result of filenameToSlug(filename)
    reslug,          \* the result of filenameToSlug(slug + extension)
    reslugBare,      \* the result of filenameToSlug(slug)
    createdAt,       \* the createdAt argument of getMostRecentDate
    updatedAt,       \* the updatedAt argument of getMostRecentDate
    recent,          \* the result of getMostRecentDate(createdAt, updatedAt)
    path,            \* the path argument of extractDateFromPath, getRelativePath
    engine,          \* the engine that runs the call
    timezone,        \* the offset of its local time zone from UTC, in hours
    extracted,       \* the result of extractDateFromPath(path)
    base,            \* the baseFolderName argument of getRelativePath
    relative,        \* the result of getRelativePath(path, base)
    paths,           \* the caller's array of paths
    given,           \* what the array held when the caller passed it
    groups,          \* the result of groupPathsByDirectory(paths)
    order,           \* the order argument of sortPathsByDate
    sorted,          \* the result of sortPathsByDate(paths, order)
    thrown,          \* whether the call threw
    report,          \* the result of validateMarkdown(text)
    frontmatterResult, \* the result of validateFrontmatter(text) in that call
    tableResults,    \* the result of validateMarkdownTables(text)
    title,           \* the result of filenameToTitle(filename)
    creationDate,    \* the result of getCreationDate(text)
    firstParagraph,  \* the result of getFirstParagraph(text)
    codeBlocks,      \* the result of extractCodeBlocks(text)
    now,             \* what new Date() is during the call of getTimeAgo
    date,            \* the date argument of getTimeAgo
    ago              \* the result of getTimeAgo(date)

contentVars ==
    <<text, plain, again, words, wordsPerMinute, minutes, maxLevel, headings,
      links, images>>

pathVars == <<filename, slug, reslug, reslugBare>>

dateVars == <<createdAt, updatedAt, recent>>

extractVars == <<path, engine, timezone, extracted>>

relativeVars == <<base, relative>>

listVars == <<paths, given, groups, order, sorted, thrown>>

validateVars == <<report, frontmatterResult, tableResults>>

agoVars == <<now, date, ago>>

derivedVars == <<title, creationDate, firstParagraph, codeBlocks>>

moreVarsButTitle ==
    <<extractVars, relativeVars, listVars, validateVars, agoVars, creationDate,
      firstParagraph, codeBlocks>>

moreVars ==
    <<extractVars, relativeVars, listVars, validateVars, agoVars, derivedVars>>

vars == <<pc, typed, contentVars, pathVars, dateVars, moreVars>>

\* the value undefined, where a string is expected
Undefined == <<"undefined">>

(***************************************************************************)
(* Characters and character classes of the regular expressions.            *)
(***************************************************************************)
\* \s of a JavaScript regular expression (the ASCII part) and of trim()
IsSpace(c) == c \in {" ", "\t", "\n", "\r", "\f"}

\* the line terminators after which ^ matches and which . does not match
IsLineTerminator(c) == c \in {"\n", "\r"}

\* \d
IsDigit(c) == c \in {"0", "1", "2", "3", "4", "5", "6", "7", "8", "9"}

UpperLetters ==
    <<"A", "B", "C", "D", "E", "F", "G", "H", "I", "J", "K", "L", "M",
      "N", "O", "P", "Q", "R", "S", "T", "U", "V", "W", "X", "Y", "Z">>

LowerLetters ==
    <<"a", "b", "c", "d", "e", "f", "g", "h", "i", "j", "k", "l", "m",
      "n", "o", "p", "q", "r", "s", "t", "u", "v", "w", "x", "y", "z">>

IsUpper(c) == \E k \in 1..26 : UpperLetters[k] = c

IsLower(c) == \E k \in 1..26 : LowerLetters[k] = c

\* \w
IsWordChar(c) == IsUpper(c) \/ IsLower(c) \/ IsDigit(c) \/ c = "_"

\* String.prototype.toLowerCase on one character
LowerChar(c) ==
    IF IsUpper(c) THEN LowerLetters[CHOOSE k \in 1..26 : UpperLetters[k] = c]
    ELSE c

UpperChar(c) ==
    IF \E k \in 1..26 : LowerLetters[k] = c
    THEN UpperLetters[CHOOSE k \in 1..26 : LowerLetters[k] = c]
    ELSE c

toLowerCase(s) == [k \in 1..Len(s) |-> LowerChar(s[k])]

Max(S) == CHOOSE m \in S : \A n \in S : n <= m

Min(S) == CHOOSE m \in S : \A n \in S : m <= n

\* s.substring(i-1, e-1): the characters at positions i .. e-1 (1-based)
Slice(s, i, e) == IF e <= i THEN <<>> ELSE SubSeq(s, i, e - 1)

\* where a greedy run X* of characters satisfying P, started at i, ends
RunEnd(s, i, P(_)) ==
    Min({j \in i..(Len(s) + 1) : j = Len(s) + 1 \/ ~P(s[j])})

\* String.prototype.trim
trim(s) ==
    LET keep == {k \in 1..Len(s) : ~IsSpace(s[k])}
    IN  IF keep = {} THEN <<>> ELSE SubSeq(s, Min(keep), Max(keep))

\* ^ under the m flag
AtLineStart(s, i) == i = 1 \/ IsLineTerminator(s[i - 1])

(***************************************************************************)
(* s.replace(re, sub) for a /g pattern whose matches are never empty:      *)
(* MatchEnd(s, i) is the position after the match that starts at i, or 0;  *)
(* Sub(s, i, e) is what the match s[i .. e-1] is replaced by.  The scan    *)
(* resumes after each match, as lastIndex does.                            *)
(***************************************************************************)
ReplaceAll(s, MatchEnd(_, _), Sub(_, _, _)) ==
    LET rest[i \in 1..(Len(s) + 1)] ==
            IF i > Len(s) THEN <<>>
            ELSE LET e == MatchEnd(s, i)
                 IN  IF e > i THEN Sub(s, i, e) \o rest[e]
                     ELSE <<s[i]>> \o rest[i + 1]
    IN  rest[1]

\* the replacement ''
Drop(s, i, e) == <<>>

(***************************************************************************)
(* The patterns of stripMarkdown, in the order of the source.              *)
(***************************************************************************)
\* /^#{1,6}\s+/gm : m hashes (the longest m in 1..6 that lets \s+ go on),
\* then every whitespace character that follows
HeadingMarkerEnd(s, i) ==
    LET ms == {m \in 1..6 :
                 /\ i + m <= Len(s)
                 /\ \A j \in i..(i + m - 1) : s[j] = "#"
                 /\ IsSpace(s[i + m])}
    IN  IF AtLineStart(s, i) /\ ms # {}
        THEN RunEnd(s, i + Max(ms), IsSpace)
        ELSE 0

\* the end of  open [^x]* close  at i, where open and close are strings that
\* consist of the character x only (so [^x]* cannot give characters back)
DelimitedEnd(s, i, open, x, close) ==
    IF i + Len(open) - 1 <= Len(s) /\ Slice(s, i, i + Len(open)) = open
    THEN LET j == RunEnd(s, i + Len(open), LAMBDA c : c # x)
         IN  IF j + Len(close) - 1 <= Len(s) /\ Slice(s, j, j + Len(close)) = close
             THEN j + Len(close)
             ELSE 0
    ELSE 0

\* /\*\*([^*]*)\*\*/g
BoldEnd(s, i) == DelimitedEnd(s, i, <<"*", "*">>, "*", <<"*", "*">>)

BoldInner(s, i, e) == Slice(s, i + 2, e - 2)

\* /\*([^*]*)\*/g
ItalicEnd(s, i) == DelimitedEnd(s, i, <<"*">>, "*", <<"*">>)

\* /~~([^~]*)~~/g
StrikeEnd(s, i) == DelimitedEnd(s, i, <<"~", "~">>, "~", <<"~", "~">>)

\* the backtick character (the lexer of TLA+ takes no backtick in a string)
Backtick == "<backtick>"

\* /`([^`]*)`/g
InlineCodeEnd(s, i) ==
    DelimitedEnd(s, i, <<Backtick>>, Backtick, <<Backtick>>)

\* $1 of the one-character delimiters
Inner1(s, i, e) == Slice(s, i + 1, e - 1)

Fence == <<Backtick, Backtick, Backtick>>

\* /```[\s\S]*?```/g : lazy, so up to the first closing fence
FenceEnd(s, i) ==
    IF i + 2 <= Len(s) /\ Slice(s, i, i + 3) = Fence
    THEN LET cs == {j \in (i + 3)..(Len(s) - 2) : Slice(s, j, j + 3) = Fence}
         IN  IF cs = {} THEN 0 ELSE Min(cs) + 3
    ELSE 0

\* \[([^\]]*)\]\(([^)]*)\) at i: <<position of ], position of )>>, or <<0, 0>>
LinkParts(s, i) ==
    IF i <= Len(s) /\ s[i] = "["
    THEN LET b == RunEnd(s, i + 1, LAMBDA c : c # "]")
         IN  IF b + 1 <= Len(s) /\ s[b + 1] = "("
             THEN LET p == RunEnd(s, b + 2, LAMBDA c : c # ")")
                  IN  IF p <= Len(s) THEN <<b, p>> ELSE <<0, 0>>
             ELSE <<0, 0>>
    ELSE <<0, 0>>

\* /\[([^\]]*)\]\([^)]*\)/g
LinkEnd(s, i) == LET lp == LinkParts(s, i) IN IF lp[2] = 0 THEN 0 ELSE lp[2] + 1

LinkText(s, i, e) == Slice(s, i + 1, LinkParts(s, i)[1])

\* /!\[([^\]]*)\]\([^)]*\)/g
ImageEnd(s, i) == IF i < Len(s) /\ s[i] = "!" THEN LinkEnd(s, i + 1) ELSE 0

ImageAlt(s, i, e) == Slice(s, i + 2, LinkParts(s, i + 1)[1])

\* ^\s* marker \s+ under /gm, where \s* is greedy and the marker is no
\* whitespace: MarkerEnd(s, j) is where the marker that starts at j ends, or 0
LineMarkerEnd(s, i, MarkerEnd(_, _)) ==
    IF ~AtLineStart(s, i) THEN 0
    ELSE LET j == RunEnd(s, i, IsSpace)
             k == MarkerEnd(s, j)
         IN  IF k > j /\ k <= Len(s) /\ IsSpace(s[k])
             THEN RunEnd(s, k, IsSpace)
             ELSE 0

\* [-*+]
BulletEnd(s, j) == IF j <= Len(s) /\ s[j] \in {"-", "*", "+"} THEN j + 1 ELSE 0

\* \d+\.
NumberEnd(s, j) ==
    LET d == RunEnd(s, j, IsDigit)
    IN  IF d > j /\ d <= Len(s) /\ s[d] = "." THEN d + 1 ELSE 0

\* >
QuoteEnd(s, j) == IF j <= Len(s) /\ s[j] = ">" THEN j + 1 ELSE 0

\* /^\s*[-*+]\s+/gm
ListMarkerEnd(s, i) == LineMarkerEnd(s, i, BulletEnd)

\* /^\s*\d+\.\s+/gm
NumberedMarkerEnd(s, i) == LineMarkerEnd(s, i, NumberEnd)

\* /^\s*>\s+/gm
BlockquoteMarkerEnd(s, i) == LineMarkerEnd(s, i, QuoteEnd)

\* /\n\s*\n/g : \s* is greedy and gives back down to the last \n of the run
BlankLinesEnd(s, i) ==
    IF i <= Len(s) /\ s[i] = "\n"
    THEN LET r  == RunEnd(s, i + 1, IsSpace)
             ns == {j \in (i + 1)..(r - 1) : s[j] = "\n"}
         IN  IF ns = {} THEN 0 ELSE Max(ns) + 1
    ELSE 0

Newline(s, i, e) == <<"\n">>

stripMarkdown(markdownContent) ==
    LET t1  == ReplaceAll(markdownContent, HeadingMarkerEnd, Drop)
        t2  == ReplaceAll(t1, BoldEnd, BoldInner)
        t3  == ReplaceAll(t2, ItalicEnd, Inner1)
        t4  == ReplaceAll(t3, StrikeEnd, BoldInner)
        t5  == ReplaceAll(t4, InlineCodeEnd, Inner1)
        t6  == ReplaceAll(t5, FenceEnd, Drop)
        t7  == ReplaceAll(t6, LinkEnd, LinkText)
        t8  == ReplaceAll(t7, ImageEnd, ImageAlt)
        t9  == ReplaceAll(t8, ListMarkerEnd, Drop)
        t10 == ReplaceAll(t9, NumberedMarkerEnd, Drop)
        t11 == ReplaceAll(t10, BlockquoteMarkerEnd, Drop)
        t12 == ReplaceAll(t11, BlankLinesEnd, Newline)
    IN  trim(t12)

\* /\s+/g
WhitespaceEnd(s, i) ==
    IF i <= Len(s) /\ IsSpace(s[i]) THEN RunEnd(s, i, IsSpace) ELSE 0

OneSpace(s, i, e) == <<" ">>

\* s.split(sep) for a one-character separator: the pieces between separators
split(s, sep) ==
    LET at == {i \in 1..Len(s) : s[i] = sep}
        n  == Cardinality(at)
        pos == [k \in 0..(n + 1) |->
                   IF k = 0 THEN 0
                   ELSE IF k = n + 1 THEN Len(s) + 1
                   ELSE CHOOSE i \in at : Cardinality({j \in at : j < i}) = k - 1]
    IN  [k \in 1..(n + 1) |-> Slice(s, pos[k - 1] + 1, pos[k])]

\* array.filter(keep).length
CountKept(a, Keep(_)) == Cardinality({k \in 1..Len(a) : Keep(a[k])})

\* getWordCount without the call of stripMarkdown
getWordCountOfRaw(markdownContent) ==
    LET normalizedText == trim(ReplaceAll(markdownContent, WhitespaceEnd, OneSpace))
    IN  IF Len(normalizedText) = 0 THEN 0
        ELSE CountKept(split(normalizedText, " "), LAMBDA word : Len(word) > 0)

getWordCount(markdownContent) ==
    LET plainText      == stripMarkdown(markdownContent)
        normalizedText == trim(ReplaceAll(plainText, WhitespaceEnd, OneSpace))
    IN  IF Len(normalizedText) = 0 THEN 0
        ELSE CountKept(split(normalizedText, " "), LAMBDA word : Len(word) > 0)

\* Math.ceil(a / b) for integers a >= 0 and b > 0
CeilOfQuotient(a, b) == IF a % b = 0 THEN a \div b ELSE (a \div b) + 1

\* getReadingTime without Math.max(1, ...)
getReadingTimeNoMinimum(markdownContent, wpm) ==
    CeilOfQuotient(getWordCount(markdownContent), wpm)

getReadingTime(markdownContent, wpm) ==
    LET wordCount == getWordCount(markdownContent)
    IN  Max({1, CeilOfQuotient(wordCount, wpm)})

\* the default value of the parameter wordsPerMinute
DefaultWordsPerMinute == 200

(***************************************************************************)
(* The loop  while ((match = re.exec(s)) !== null)  of a /g pattern: the    *)
(* positions at which the successive matches start.                        *)
(***************************************************************************)
MatchStarts(s, MatchEnd(_, _)) ==
    LET rest[i \in 1..(Len(s) + 1)] ==
            IF i > Len(s) THEN <<>>
            ELSE LET e == MatchEnd(s, i)
                 IN  IF e > i THEN <<i>> \o rest[e] ELSE rest[i + 1]
    IN  rest[1]

\* array.filter(Keep)
SelectSeqOp(a, Keep(_)) ==
    LET f[k \in 0..Len(a)] ==
            IF k = 0 THEN <<>>
            ELSE IF Keep(a[k]) THEN Append(f[k - 1], a[k]) ELSE f[k - 1]
    IN  f[Len(a)]

(***************************************************************************)
(* getAllHeadings                                                          *)
(***************************************************************************)
\* the number of # that (#{1,6}) captures at i, or 0 when \s+ cannot follow
HeadingLevelAt(s, i) ==
    LET ms == {m \in 1..6 :
                 /\ i + m <= Len(s)
                 /\ \A j \in i..(i + m - 1) : s[j] = "#"
                 /\ IsSpace(s[i + m])}
    IN  IF AtLineStart(s, i) /\ ms # {} THEN Max(ms) ELSE 0

\* where (.*) starts in the match at i: after the greedy \s+
HeadingTextStart(s, i) == RunEnd(s, i + HeadingLevelAt(s, i), IsSpace)

\* /^(#{1,6})\s+(.*)$/gm : (.*) runs to the end of its line, where $ matches
HeadingLineEnd(s, i) ==
    IF HeadingLevelAt(s, i) = 0 THEN 0
    ELSE RunEnd(s, HeadingTextStart(s, i), LAMBDA c : ~IsLineTerminator(c))

\* /[^\w\s-]/g
NonAnchorCharEnd(s, i) ==
    IF IsWordChar(s[i]) \/ IsSpace(s[i]) \/ s[i] = "-" THEN 0 ELSE i + 1

OneHyphen(s, i, e) == <<"-">>

\* text.toLowerCase().replace(/[^\w\s-]/g, '').replace(/\s+/g, '-')
HeadingAnchor(t) ==
    ReplaceAll(ReplaceAll(toLowerCase(t), NonAnchorCharEnd, Drop),
               WhitespaceEnd, OneHyphen)

HeadingAt(s, i) ==
    LET t == trim(Slice(s, HeadingTextStart(s, i), HeadingLineEnd(s, i)))
    IN  [level |-> HeadingLevelAt(s, i), text |-> t, anchor |-> HeadingAnchor(t)]

getAllHeadings(markdownContent, maxLvl) ==
    LET starts == MatchStarts(markdownContent, HeadingLineEnd)
        all    == [k \in 1..Len(starts) |-> HeadingAt(markdownContent, starts[k])]
    IN  SelectSeqOp(all, LAMBDA h : h.level <= maxLvl)

(***************************************************************************)
(* extractLinks                                                            *)
(***************************************************************************)
LinkAt(s, i) ==
    LET lp == LinkParts(s, i)
    IN  [text |-> Slice(s, i + 1, lp[1]), url |-> Slice(s, lp[1] + 2, lp[2])]

extractLinks(markdownContent) ==
    LET starts == MatchStarts(markdownContent, LinkEnd)
    IN  [k \in 1..Len(starts) |-> LinkAt(markdownContent, starts[k])]

(***************************************************************************)
(* extractImages                                                           *)
(***************************************************************************)
Quote == "\""

\* (?:\s+"([^"]*)")?\) tried at q with the group taken: <<position of the
\* opening quote, position of the closing quote>>, or <<0, 0>>.  \s+ and
\* [^"]* are greedy and what they give back cannot match what follows them.
TitleParts(s, q) ==
    IF q <= Len(s) /\ IsSpace(s[q])
    THEN LET r == RunEnd(s, q, IsSpace)
         IN  IF r <= Len(s) /\ s[r] = Quote
             THEN LET u == RunEnd(s, r + 1, LAMBDA c : c # Quote)
                  IN  IF u + 1 <= Len(s) /\ s[u + 1] = ")"
                      THEN <<r, u>> ELSE <<0, 0>>
             ELSE <<0, 0>>
    ELSE <<0, 0>>

\* !\[([^\]]*)\]\(([^)]*?) at i: <<position of ], where ([^)]*?) ends>>, or
\* <<0, 0>>.  The lazy group ends at the first position from which the rest
\* of the pattern matches: a title and ")", or ")" alone.
ImageParts(s, i) ==
    IF i + 1 <= Len(s) /\ s[i] = "!" /\ s[i + 1] = "["
    THEN LET b == RunEnd(s, i + 2, LAMBDA c : c # "]")
         IN  IF b + 1 <= Len(s) /\ s[b + 1] = "("
             THEN LET qs == {q \in (b + 2)..Len(s) :
                               /\ \A k \in (b + 2)..(q - 1) : s[k] # ")"
                               /\ TitleParts(s, q)[1] # 0 \/ s[q] = ")"}
                  IN  IF qs = {} THEN <<0, 0>> ELSE <<b, Min(qs)>>
             ELSE <<0, 0>>
    ELSE <<0, 0>>

\* /!\[([^\]]*)\]\(([^)]*?)(?:\s+"([^"]*)")?\)/g
ImageMatchEnd(s, i) ==
    LET ip == ImageParts(s, i)
        tp == TitleParts(s, ip[2])
    IN  IF ip[2] = 0 THEN 0
        ELSE IF tp[1] # 0 THEN tp[2] + 2
        ELSE ip[2] + 1

\* match[3]: the captured title, undefined when the group took no part
ImageTitleGroup(s, i) ==
    LET tp == TitleParts(s, ImageParts(s, i)[2])
    IN  IF tp[1] # 0 THEN Slice(s, tp[1] + 1, tp[2]) ELSE Undefined

\* the title as captured, without || undefined
KeepCaptured(x) == x

\* x || undefined, for x a string or undefined
OrUndefined(x) == IF x = Undefined \/ x = <<>> THEN Undefined ELSE x

ImageAt(s, i) ==
    LET ip == ImageParts(s, i)
    IN  [alt   |-> Slice(s, i + 2, ip[1]),
         src   |-> Slice(s, ip[1] + 2, ip[2]),
         title |-> OrUndefined(ImageTitleGroup(s, i))]

extractImages(markdownContent) ==
    LET starts == MatchStarts(markdownContent, ImageMatchEnd)
    IN  [k \in 1..Len(starts) |-> ImageAt(markdownContent, starts[k])]

(***************************************************************************)
(* filenameToSlug                                                          *)
(***************************************************************************)
\* /\.[^/.]+$/ : where the extension starts (its dot), or 0.  Without the m
\* flag $ is the end of the string, so the dot is the last one.
ExtensionStart(s) ==
    LET ds == {i \in 1..(Len(s) - 1) :
                 /\ s[i] = "."
                 /\ \A k \in (i + 1)..Len(s) : s[k] # "/" /\ s[k] # "."}
    IN  IF ds = {} THEN 0 ELSE Min(ds)

\* s.replace(/\.[^/.]+$/, '')
RemoveExtension(s) ==
    IF ExtensionStart(s) = 0 THEN s ELSE Slice(s, 1, ExtensionStart(s))

\* the extension that RemoveExtension removes
Extension(s) ==
    IF ExtensionStart(s) = 0 THEN <<>>
    ELSE Slice(s, ExtensionStart(s), Len(s) + 1)

\* /_/g
UnderscoreEnd(s, i) == IF s[i] = "_" THEN i + 1 ELSE 0

\* /[^a-z0-9\s-]/g
NonSlugCharEnd(s, i) ==
    IF IsLower(s[i]) \/ IsDigit(s[i]) \/ IsSpace(s[i]) \/ s[i] = "-"
    THEN 0 ELSE i + 1

\* /-+/g
\* /-+/g that matches nowhere
NoHyphensEnd(s, i) == 0

HyphensEnd(s, i) ==
    IF s[i] = "-" THEN RunEnd(s, i, LAMBDA c : c = "-") ELSE 0

\* filenameToSlug with whitespace replaced by underscores
\* where the match of /^\d{4}-\d{2}-\d{2}[_-]?/ ends in s, or 1 without a match
DatePrefixEnd(s) ==
    IF /\ Len(s) >= 10
       /\ \A k \in {1, 2, 3, 4, 6, 7, 9, 10} : IsDigit(s[k])
       /\ s[5] = "-" /\ s[8] = "-"
    THEN (IF Len(s) >= 11 /\ s[11] \in {"_", "-"} THEN 12 ELSE 11)
    ELSE 1

\* /\b\w/g with l => l.toUpperCase(): the word characters that start the
\* string or follow a character that is no word character
CapitalizeWords(s) ==
    [k \in 1..Len(s) |->
        IF IsWordChar(s[k]) /\ (k = 1 \/ ~IsWordChar(s[k - 1]))
        THEN UpperChar(s[k]) ELSE s[k]]

HyphenEnd(s, i) == IF s[i] = "-" THEN i + 1 ELSE 0

filenameToTitle(name) ==
    LET t1 == RemoveExtension(name)
        t2 == Slice(t1, DatePrefixEnd(t1), Len(t1) + 1)
        t3 == ReplaceAll(t2, HyphenEnd, OneSpace)
        t4 == ReplaceAll(t3, UnderscoreEnd, OneSpace)
        t5 == CapitalizeWords(t4)
    IN  trim(t5)

filenameToSlugUnderscored(name) ==
    LET t1 == RemoveExtension(name)
        t2 == toLowerCase(t1)
        t3 == ReplaceAll(t2, UnderscoreEnd, OneHyphen)
        t4 == ReplaceAll(t3, NonSlugCharEnd, Drop)
        t5 == ReplaceAll(t4, WhitespaceEnd, LAMBDA s, i, e : <<"_">>)
        t6 == ReplaceAll(t5, HyphensEnd, OneHyphen)
    IN  trim(t6)

filenameToSlug(name) ==
    LET t1 == RemoveExtension(name)
        t2 == toLowerCase(t1)
        t3 == ReplaceAll(t2, UnderscoreEnd, OneHyphen)
        t4 == ReplaceAll(t3, NonSlugCharEnd, Drop)
        t5 == ReplaceAll(t4, WhitespaceEnd, OneHyphen)
        t6 == ReplaceAll(t5, HyphensEnd, OneHyphen)
    IN  trim(t6)

(***************************************************************************)
(* getMostRecentDate.  A Date object is a record: object tells one object  *)
(* from another, time is what getTime() returns, NaN for an Invalid Date.  *)
(***************************************************************************)
NaN == -1

NoDate == [object |-> "undefined", time |-> NaN]

\* a < b in place of a > b
LessTime(a, b) == a # NaN /\ b # NaN /\ a < b

\* a > b on the results of getTime(): false when either is NaN
GreaterTime(a, b) == a # NaN /\ b # NaN /\ a > b

getMostRecentDate(created, updated) ==
    IF created = NoDate /\ updated = NoDate THEN NoDate
    ELSE IF created = NoDate THEN updated
    ELSE IF updated = NoDate THEN created
    ELSE IF GreaterTime(updated.time, created.time) THEN updated ELSE created

(***************************************************************************)
(* extractDateFromPath.  new Date(string) is the engine's: the time value  *)
(* is counted here in hours since the epoch, NaN for an Invalid Date.      *)
(***************************************************************************)
\* the value null, where a Date is expected
Null == [object |-> "null", time |-> NaN]

\* filePath.split(sep).pop(): what follows the last separator
LastPart(s, sep) ==
    LET at == {i \in 1..Len(s) : s[i] = sep}
    IN  IF at = {} THEN s ELSE Slice(s, Max(at) + 1, Len(s) + 1)

Backslash == "\\"

\* /\\/g
BackslashEnd(s, i) == IF s[i] = Backslash THEN i + 1 ELSE 0

OneSlash(s, i, e) == <<"/">>

getFileNameWithoutExtension(filePath) ==
    LET bySlash     == LastPart(filePath, "/")
        byBackslash == LastPart(filePath, Backslash)
        name        == IF bySlash # <<>> THEN bySlash ELSE byBackslash
    IN  RemoveExtension(name)

\* the patterns of extractDateFromPath: "d" stands for \d
YearMonthDay(sep) == <<"d", "d", "d", "d", sep, "d", "d", sep, "d", "d">>

EightDigits == <<"d", "d", "d", "d", "d", "d", "d", "d">>

MonthDayYear(sep) == <<"d", "d", sep, "d", "d", sep, "d", "d", "d", "d">>

patterns ==
    <<YearMonthDay("-"), YearMonthDay("_"), EightDigits,
      MonthDayYear("-"), MonthDayYear("_")>>

\* the pattern matches the characters of s from position i on
MatchesAt(s, i, pattern) ==
    /\ i + Len(pattern) - 1 <= Len(s)
    /\ \A k \in 1..Len(pattern) :
          IF pattern[k] = "d" THEN IsDigit(s[i + k - 1])
          ELSE s[i + k - 1] = pattern[k]

\* s.match(pattern)[1] : the leftmost match, <<>> when match returns null
match(s, pattern) ==
    LET starts == {i \in 1..Len(s) : MatchesAt(s, i, pattern)}
    IN  IF starts = {} THEN <<>>
        ELSE Slice(s, Min(starts), Min(starts) + Len(pattern))

Digits == <<"0", "1", "2", "3", "4", "5", "6", "7", "8", "9">>

DigitValue(c) == (CHOOSE k \in 1..10 : Digits[k] = c) - 1

\* the number a string of digits denotes
Number(s) ==
    LET n[k \in 0..Len(s)] ==
            IF k = 0 THEN 0 ELSE 10 * n[k - 1] + DigitValue(s[k])
    IN  n[Len(s)]

IsLeapYear(y) == y % 4 = 0 /\ (y % 100 # 0 \/ y % 400 = 0)

\* the number of the day on which year y starts, from 1 January 1970
DayFromYear(y) ==
    365 * (y - 1970) + ((y - 1969) \div 4) - ((y - 1901) \div 100)
        + ((y - 1601) \div 400)

DaysInMonth(y, m) ==
    IF m = 2 THEN (IF IsLeapYear(y) THEN 29 ELSE 28)
    ELSE IF m \in {4, 6, 9, 11} THEN 30 ELSE 31

\* MakeDay: a day beyond the end of the month runs into the next months
MakeDay(y, m, d) ==
    LET before[k \in 1..12] ==
            IF k = 1 THEN 0 ELSE before[k - 1] + DaysInMonth(y, k - 1)
    IN  DayFromYear(y) + before[m] + d - 1

HoursPerDay == 24

\* the last year in which a time value is in the range of Date
MaxYear == 275760

\* the engines: "legacy" reads what is no ISO date with the heuristics of V8
\* and lets the days of a month run to 31, "strict" reads ISO dates only
Engines == {"legacy", "strict"}

\* the offsets of the local time zone from UTC, in hours
TimezoneOffsets == {-5, 0, 2}

\* the time value of midnight UTC of a day
UTC(y, m, d) == HoursPerDay * MakeDay(y, m, d)

\* the time value of midnight local time of a day
Local(y, m, d, tz) == HoursPerDay * MakeDay(y, m, d) - tz

\* a two-digit year of the legacy heuristics
LegacyYear(y) == IF y <= 49 THEN y + 2000 ELSE IF y <= 99 THEN y + 1900 ELSE y

\* the date of the numbers the legacy heuristics collected: month, day and
\* year when the first number can be a day of a month, year, month and day
\* when it cannot; the numbers that are missing are 1
LegacyDate(n1, n2, n3, tz) ==
    LET ymd   == n1 < 1 \/ n1 > 31
        year  == LegacyYear(IF ymd THEN n1 ELSE n3)
        month == IF ymd THEN n2 ELSE n1
        day   == IF ymd THEN n3 ELSE n2
    IN  IF month \in 1..12 /\ day \in 1..31 /\ year <= MaxYear
        THEN Local(year, month, day, tz) ELSE NaN

\* new Date(dateStr).getTime() for the strings of extractDateFromPath:
\* YYYY-MM-DD is an ISO date, read as UTC; the others are left to the engine
ParseDate(dateStr, eng, tz) ==
    IF MatchesAt(dateStr, 1, YearMonthDay("-"))
    THEN LET y == Number(Slice(dateStr, 1, 5))
             m == Number(Slice(dateStr, 6, 8))
             d == Number(Slice(dateStr, 9, 11))
         IN  IF m \in 1..12 /\ d >= 1 /\
                (d <= DaysInMonth(y, m) \/ (eng = "legacy" /\ d <= 31))
             THEN UTC(y, m, d) ELSE NaN
    ELSE IF eng = "strict" THEN NaN
    ELSE IF MatchesAt(dateStr, 1, EightDigits)
    THEN LegacyDate(Number(dateStr), 1, 1, tz)
    ELSE LegacyDate(Number(Slice(dateStr, 1, 3)), Number(Slice(dateStr, 4, 6)),
                    Number(Slice(dateStr, 7, 11)), tz)

\* a date is returned whatever its time value
AnyTime(t) == TRUE

\* !isNaN(date.getTime())
IsValidTime(t) == t # NaN

\* the loop over the patterns, from the k-th on
extractDateFromPath(p, eng, tz) ==
    LET name == getFileNameWithoutExtension(p)
        from[k \in 1..(Len(patterns) + 1)] ==
            IF k > Len(patterns) THEN Null
            ELSE LET m       == match(name, patterns[k])
                     dateStr == ReplaceAll(m, UnderscoreEnd, OneHyphen)
                     t       == ParseDate(dateStr, eng, tz)
                 IN  IF m # <<>> /\ IsValidTime(t)
                     THEN [object |-> "date", time |-> t]
                     ELSE from[k + 1]
    IN  from[1]

(***************************************************************************)
(* getRelativePath                                                         *)
(***************************************************************************)
\* s.replace(/\\/g, '/')
normalizeSeparators(s) == ReplaceAll(s, BackslashEnd, OneSlash)

\* s.startsWith(prefix)
startsWith(s, prefix) ==
    Len(prefix) <= Len(s) /\ Slice(s, 1, Len(prefix) + 1) = prefix

\* s.replace(/^\//, '')
RemoveLeadingSlash(s) ==
    IF Len(s) >= 1 /\ s[1] = "/" THEN Slice(s, 2, Len(s) + 1) ELSE s

\* where the match of ^.*?<base>/ ends, or 0: the base is escaped, so it
\* stands for itself; .*? takes as few characters as it can, none of them a
\* line terminator
BaseRegexEnd(s, normalizedBase) ==
    LET n      == Len(normalizedBase)
        starts == {i \in 1..(Len(s) - n) :
                     /\ Slice(s, i, i + n) = normalizedBase
                     /\ s[i + n] = "/"
                     /\ \A k \in 1..(i - 1) : ~IsLineTerminator(s[k])}
    IN  IF starts = {} THEN 0 ELSE Min(starts) + n + 1

\* relativePath || normalizedPath
OrElse(relativePath, normalizedPath) ==
    IF relativePath # <<>> THEN relativePath ELSE normalizedPath

getRelativePath(filePath, baseFolderName) ==
    LET normalizedPath == normalizeSeparators(filePath)
        normalizedBase == normalizeSeparators(baseFolderName)
        e              == BaseRegexEnd(normalizedPath, normalizedBase)
        relativePath   == IF e = 0 THEN normalizedPath
                          ELSE Slice(normalizedPath, e, Len(normalizedPath) + 1)
    IN  IF startsWith(normalizedPath, normalizedBase)
        THEN RemoveLeadingSlash(
                 Slice(normalizedPath, Len(normalizedBase) + 1,
                       Len(normalizedPath) + 1))
        ELSE OrElse(relativePath, normalizedPath)

(***************************************************************************)
(* groupPathsByDirectory.  The object groups is the sequence of its own    *)
(* properties in the order of their creation; what it inherits from        *)
(* Object.prototype, and the order in which its keys are enumerated, are   *)
(* JavaScript's.                                                           *)
(***************************************************************************)
\* parts.pop(); parts.join('/') on the path with slashes for backslashes:
\* what stands before the last slash
getDirectoryPath(filePath) ==
    LET s  == normalizeSeparators(filePath)
        at == {i \in 1..Len(s) : s[i] = "/"}
    IN  IF at = {} THEN <<>> ELSE Slice(s, 1, Max(at))

Root == <<"r", "o", "o", "t">>

\* getDirectoryPath(path) || 'root'
DirectoryOf(p) ==
    IF getDirectoryPath(p) # <<>> THEN getDirectoryPath(p) ELSE Root

\* the properties every object inherits from Object.prototype
PrototypeNames ==
    { <<"c", "o", "n", "s", "t", "r", "u", "c", "t", "o", "r">>,
      <<"_", "_", "p", "r", "o", "t", "o", "_", "_">>,
      <<"t", "o", "S", "t", "r", "i", "n", "g">>,
      <<"t", "o", "L", "o", "c", "a", "l", "e", "S", "t", "r", "i", "n", "g">>,
      <<"v", "a", "l", "u", "e", "O", "f">>,
      <<"h", "a", "s", "O", "w", "n", "P", "r", "o", "p", "e", "r", "t", "y">>,
      <<"i", "s", "P", "r", "o", "t", "o", "t", "y", "p", "e", "O", "f">>,
      <<"p", "r", "o", "p", "e", "r", "t", "y", "I", "s", "E", "n", "u", "m", "e", "r", "a", "b", "l", "e">>,
      <<"_", "_", "d", "e", "f", "i", "n", "e", "G", "e", "t", "t", "e", "r", "_", "_">>,
      <<"_", "_", "d", "e", "f", "i", "n", "e", "S", "e", "t", "t", "e", "r", "_", "_">>,
      <<"_", "_", "l", "o", "o", "k", "u", "p", "G", "e", "t", "t", "e", "r", "_", "_">>,
      <<"_", "_", "l", "o", "o", "k", "u", "p", "S", "e", "t", "t", "e", "r", "_", "_">> }

\* the index of the own property with this key, or 0
OwnIndex(entries, key) ==
    LET at == {k \in 1..Len(entries) : entries[k].key = key}
    IN  IF at = {} THEN 0 ELSE Min(at)

\* groups[directory] is an inherited property: a function or an object,
\* which is truthy and has no method push
IsInherited(entries, key) ==
    OwnIndex(entries, key) = 0 /\ key \in PrototypeNames

\* one round of the loop; a TypeError ends the call
AddToGroup(g, p) ==
    LET directory == DirectoryOf(p)
        k         == OwnIndex(g.entries, directory)
    IN  IF g.thrown THEN g
        ELSE IF IsInherited(g.entries, directory)
        THEN [thrown |-> TRUE, entries |-> g.entries]
        ELSE IF k = 0
        THEN [thrown |-> FALSE,
              entries |-> Append(g.entries,
                                 [key |-> directory, list |-> <<p>>])]
        ELSE [thrown |-> FALSE,
              entries |-> [g.entries EXCEPT ![k].list = Append(@, p)]]

\* a key that is the canonical form of an integer: JavaScript enumerates
\* such keys first, in ascending order (integers of ten digits, the longest
\* there are, are left to be string keys)
IsIntegerKey(key) ==
    /\ Len(key) \in 1..9
    /\ \A k \in 1..Len(key) : IsDigit(key[k])
    /\ Len(key) = 1 \/ key[1] # "0"

\* the own properties in the order of enumeration: integer keys ascending,
\* then the other keys in the order of their creation
EnumerationOrder(entries) ==
    LET ints   == SelectSeqOp(entries, LAMBDA e : IsIntegerKey(e.key))
        others == SelectSeqOp(entries, LAMBDA e : ~IsIntegerKey(e.key))
        rank(k) == Cardinality({j \in 1..Len(ints) :
                                   Number(ints[j].key) < Number(ints[k].key)})
        sortedInts == [r \in 1..Len(ints) |->
                          ints[CHOOSE k \in 1..Len(ints) : rank(k) = r - 1]]
    IN  sortedInts \o others

groupPathsByDirectory(ps) ==
    LET after[k \in 0..Len(ps)] ==
            IF k = 0 THEN [thrown |-> FALSE, entries |-> <<>>]
            ELSE AddToGroup(after[k - 1], ps[k])
        g == after[Len(ps)]
    IN  IF g.thrown THEN [thrown |-> TRUE, entries |-> <<>>]
        ELSE [thrown |-> FALSE, entries |-> EnumerationOrder(g.entries)]

(***************************************************************************)
(* sortPathsByDate.  Array.prototype.sort is stable and sorts the array it *)
(* is called on in place.                                                  *)
(***************************************************************************)
\* the comparison with the dated paths in ascending order whatever the order
compareAscending(a, b, ord, eng, tz) ==
    LET dateA == extractDateFromPath(a, eng, tz)
        dateB == extractDateFromPath(b, eng, tz)
    IN  IF dateA = Null /\ dateB = Null THEN 0
        ELSE IF dateA = Null THEN (IF ord = "desc" THEN 1 ELSE -1)
        ELSE IF dateB = Null THEN (IF ord = "desc" THEN -1 ELSE 1)
        ELSE dateA.time - dateB.time

\* the function passed to sort
compare(a, b, ord, eng, tz) ==
    LET dateA == extractDateFromPath(a, eng, tz)
        dateB == extractDateFromPath(b, eng, tz)
    IN  IF dateA = Null /\ dateB = Null THEN 0
        ELSE IF dateA = Null THEN (IF ord = "desc" THEN 1 ELSE -1)
        ELSE IF dateB = Null THEN (IF ord = "desc" THEN -1 ELSE 1)
        ELSE IF ord = "desc" THEN dateB.time - dateA.time
        ELSE dateA.time - dateB.time

\* a stable sort: each element goes behind the elements before it that do
\* not compare greater
Insert(before, x, ord, eng, tz) ==
    LET n == Cardinality({j \in 1..Len(before) :
                             compare(before[j], x, ord, eng, tz) <= 0})
    IN  SubSeq(before, 1, n) \o <<x>> \o SubSeq(before, n + 1, Len(before))

sort(a, ord, eng, tz) ==
    LET done[k \in 0..Len(a)] ==
            IF k = 0 THEN <<>> ELSE Insert(done[k - 1], a[k], ord, eng, tz)
    IN  done[Len(a)]

\* paths.sort(...): the array that is returned is the array that was passed
sortPathsByDate(ps, ord, eng, tz) == sort(ps, ord, eng, tz)

(***************************************************************************)
(* getTimeAgo.  A time value is a number of whole seconds and a number of  *)
(* milliseconds below 1000 (getTime() is 1000 * seconds + millis).         *)
(***************************************************************************)
\* Math.floor((now.getTime() - date.getTime()) / 1000)
\* diffInSeconds without its sign
AbsDiffInSeconds(n, d) ==
    IF n.seconds >= d.seconds THEN n.seconds - d.seconds
    ELSE d.seconds - n.seconds

DiffInSeconds(n, d) ==
    IF n.millis >= d.millis THEN n.seconds - d.seconds
    ELSE n.seconds - d.seconds - 1

intervals ==
    << [label |-> <<"y", "e", "a", "r">>, seconds |-> 31536000],
       [label |-> <<"m", "o", "n", "t", "h">>, seconds |-> 2592000],
       [label |-> <<"w", "e", "e", "k">>, seconds |-> 604800],
       [label |-> <<"d", "a", "y">>, seconds |-> 86400],
       [label |-> <<"h", "o", "u", "r">>, seconds |-> 3600],
       [label |-> <<"m", "i", "n", "u", "t", "e">>, seconds |-> 60] >>

\* the decimal digits of a number n >= 0, as template literals write it
ToString(n) ==
    LET digits[m \in 0..n] ==
            IF m < 10 THEN <<Digits[m + 1]>>
            ELSE Append(digits[m \div 10], Digits[(m % 10) + 1])
    IN  digits[n]

\* every count takes the plural
AlwaysPlural(count) == <<"s">>

\* count > 1 ? 's' : ''
Plural(count) == IF count > 1 THEN <<"s">> ELSE <<>>

Ago == <<" ", "a", "g", "o">>

JustNow == <<"j", "u", "s", "t", " ", "n", "o", "w">>

\* the loop over the intervals, from the k-th on
getTimeAgo(d, n) ==
    LET diffInSeconds == DiffInSeconds(n, d)
        from[k \in 1..(Len(intervals) + 1)] ==
            IF k > Len(intervals) THEN JustNow
            ELSE LET count == diffInSeconds \div intervals[k].seconds
                 IN  IF count >= 1
                     THEN ToString(count) \o <<" ">> \o intervals[k].label
                              \o Plural(count) \o Ago
                     ELSE from[k + 1]
    IN  from[1]

(***************************************************************************)
(* validateMarkdown and the validations it calls.                          *)
(***************************************************************************)
\* no line terminator stands at the positions from i up to j - 1
OnOneLine(s, i, j) == \A k \in i..(j - 1) : ~IsLineTerminator(s[k])

\* /^#{1,6}\s+.+$/m matches at the line start i: 1 to 6 #, whitespace, and a
\* character that is no line terminator; .+ then runs to the end of the line
HeadingLineAt(s, i) ==
    /\ AtLineStart(s, i)
    /\ \E h \in 1..6 : \E w \in 1..(Len(s) - i - h) :
          /\ \A k \in i..(i + h - 1) : s[k] = "#"
          /\ \A k \in (i + h)..(i + h + w - 1) : IsSpace(s[k])
          /\ ~IsLineTerminator(s[i + h + w])

\* /^#{1,6}\s+.+$/m.test(content)
hasHeadings(s) == \E i \in 1..Len(s) : HeadingLineAt(s, i)

\* open at i and close at j are on one line, and close does not overlap open
PairOnLine(s, open, close) ==
    \E i \in 1..Len(s) : \E j \in (i + Len(open))..Len(s) :
        /\ Slice(s, i, i + Len(open)) = open
        /\ j + Len(close) - 1 <= Len(s)
        /\ Slice(s, j, j + Len(close)) = close
        /\ OnOneLine(s, i, j + Len(close))

\* \[.*\]\(.*\) : [ then ]( then ) on one line
BracketsOnLine(s) ==
    \E i \in 1..Len(s) : \E j \in (i + 1)..(Len(s) - 2) :
    \E k \in (j + 2)..Len(s) :
        /\ s[i] = "[" /\ s[j] = "]" /\ s[j + 1] = "(" /\ s[k] = ")"
        /\ OnOneLine(s, i, k)

\* ^[-*+]\s+ under the m flag
BulletLine(s) ==
    \E i \in 1..(Len(s) - 1) :
        AtLineStart(s, i) /\ s[i] \in {"-", "*", "+"} /\ IsSpace(s[i + 1])

\* /(\*\*.*\*\*|\*.*\*|`.*`|\[.*\]\(.*\)|^[-*+]\s+)/m.test(content)
hasMarkdownSyntax(s) ==
    \/ PairOnLine(s, <<"*", "*">>, <<"*", "*">>)
    \/ PairOnLine(s, <<"*">>, <<"*">>)
    \/ PairOnLine(s, <<Backtick>>, <<Backtick>>)
    \/ BracketsOnLine(s)
    \/ BulletLine(s)

\* the length above which content counts as markdown whatever it holds
MinPlainLength == 10

isValidMarkdown(content) ==
    /\ content # <<>>
    /\ Len(trim(content)) > 0
    /\ \/ hasHeadings(content)
       \/ hasMarkdownSyntax(content)
       \/ Len(content) > MinPlainLength

\* /^---\s*\n([\s\S]*?)\n---\s*\n([\s\S]*)$/ matches: --- at the start,
\* whitespace up to a line feed at a, the line feed at b before the closing
\* ---, whitespace up to a line feed at c
frontmatterMatches(s) ==
    /\ Len(s) >= 3 /\ Slice(s, 1, 4) = <<"-", "-", "-">>
    /\ \E a \in 4..Len(s) : \E b \in (a + 1)..(Len(s) - 3) :
       \E c \in (b + 4)..Len(s) :
          /\ s[a] = "\n" /\ \A k \in 4..(a - 1) : IsSpace(s[k])
          /\ Slice(s, b, b + 4) = <<"\n", "-", "-", "-">>
          /\ s[c] = "\n" /\ \A k \in (b + 4)..(c - 1) : IsSpace(s[k])

\* the positions <<a, b>> of the line feed that ends the opening line and of
\* the one before the closing ---: \s* is greedy, so a is the last one that
\* leaves a match, and ([\s\S]*?) is lazy, so b is the first one after it
FrontmatterBounds(s) ==
    LET closes(a, b) ==
            /\ s[a] = "\n" /\ \A k \in 4..(a - 1) : IsSpace(s[k])
            /\ Slice(s, b, b + 4) = <<"\n", "-", "-", "-">>
            /\ \E c \in (b + 4)..Len(s) :
                  s[c] = "\n" /\ \A k \in (b + 4)..(c - 1) : IsSpace(s[k])
        a == Max({x \in 4..Len(s) :
                    \E y \in (x + 1)..(Len(s) - 3) : closes(x, y)})
        b == Min({y \in (a + 1)..(Len(s) - 3) : closes(a, y)})
    IN  <<a, b>>

\* match[1]
frontmatterText(s) ==
    LET ab == FrontmatterBounds(s) IN Slice(s, ab[1] + 1, ab[2])

\* line.indexOf(':'), from 1, or 0
colonIndex(line) ==
    IF \E k \in 1..Len(line) : line[k] = ":"
    THEN Min({k \in 1..Len(line) : line[k] = ":"}) ELSE 0

IsQuote(c) == c \in {"\"", "'"}

\* value.replace(/^["']|["']$/g, '')
cleanValue(value) ==
    LET first == IF Len(value) >= 1 /\ IsQuote(value[1]) THEN 2 ELSE 1
        last  == IF Len(value) >= first /\ IsQuote(value[Len(value)])
                 THEN Len(value) ELSE Len(value) + 1
    IN  Slice(value, first, last)

\* the lines of the front matter that the loop reads: not blank, with a colon
KeyedLines(s) ==
    SelectSeq(split(frontmatterText(s), "\n"),
              LAMBDA line : trim(line) # <<>> /\ colonIndex(line) # 0)

KeyOf(line) == trim(Slice(line, 1, colonIndex(line)))

ValueOf(line) ==
    cleanValue(trim(Slice(line, colonIndex(line) + 1, Len(line) + 1)))

ProtoKey == <<"_", "_", "p", "r", "o", "t", "o", "_", "_">>

\* frontmatter[key] = cleanValue, line after line on an object literal: the
\* last value of a key stays, and the key __proto__ is the setter of
\* Object.prototype, which takes no string and adds no property
FrontmatterOf(s) ==
    LET lines == KeyedLines(s)
        keys  == {KeyOf(lines[k]) : k \in 1..Len(lines)} \ {ProtoKey}
    IN  [key \in keys |->
            ValueOf(lines[Max({k \in 1..Len(lines) : KeyOf(lines[k]) = key})])]

\* isValid is true on both returns of the function: without front matter
\* (line 36), and with its lines read (line 62); no statement of the try
\* block throws, so the catch of lines 66-71 is never entered
\* validateFrontmatter with an assignment to __proto__ that throws
validateFrontmatterThrowing(content) ==
    IF ~frontmatterMatches(content)
    THEN [isValid |-> TRUE, hasFrontmatter |-> FALSE, frontmatter |-> <<>>]
    ELSE [isValid |-> \A k \in 1..Len(KeyedLines(content)) :
                          KeyOf(KeyedLines(content)[k]) # ProtoKey,
          hasFrontmatter |-> TRUE,
          frontmatter |-> FrontmatterOf(content)]

validateFrontmatter(content) ==
    IF ~frontmatterMatches(content)
    THEN [isValid |-> TRUE, hasFrontmatter |-> FALSE, frontmatter |-> <<>>]
    ELSE [isValid |-> TRUE, hasFrontmatter |-> TRUE,
          frontmatter |-> FrontmatterOf(content)]

\* s.includes(sub)
includes(s, sub) ==
    \E i \in 1..(Len(s) - Len(sub) + 1) : Slice(s, i, i + Len(sub)) = sub

IsAlphanumeric(c) == IsLower(c) \/ IsUpper(c) \/ IsDigit(c)

\* [-a-zA-Z0-9@:%._\+~#=]
IsHostChar(c) ==
    IsAlphanumeric(c) \/ c \in {"-", "@", ":", "%", ".", "_", "+", "~", "#", "="}

\* [a-zA-Z0-9()]
IsDomainChar(c) == IsAlphanumeric(c) \/ c \in {"(", ")"}

\* [-a-zA-Z0-9()@:%_\+.~#?&//=]
IsUrlTailChar(c) ==
    IsAlphanumeric(c)
        \/ c \in {"-", "(", ")", "@", ":", "%", "_", "+", ".", "~", "#", "?",
                  "&", "/", "="}

Http == <<"h", "t", "t", "p", ":", "/", "/">>

Https == <<"h", "t", "t", "p", "s", ":", "/", "/">>

\* urlPattern.test(url): the scheme, www. or not, 1 to 256 host characters,
\* a dot, 1 to 6 domain characters that end at a word boundary, and tail
\* characters up to the end
urlPattern(url) ==
    \E scheme \in {Http, Https} :
    \E www \in {<<>>, <<"w", "w", "w", ".">>} :
    \E host \in 1..Min({256, Len(url)}) : \E domain \in 1..6 :
        LET p == Len(scheme) + Len(www)
            d == p + host + 1
            e == d + domain
        IN  /\ e <= Len(url)
            /\ Slice(url, 1, p + 1) = scheme \o www
            /\ \A k \in (p + 1)..(p + host) : IsHostChar(url[k])
            /\ url[d] = "."
            /\ \A k \in (d + 1)..e : IsDomainChar(url[k])
            /\ IsWordChar(url[e]) # (e < Len(url) /\ IsWordChar(url[e + 1]))
            /\ \A k \in (e + 1)..Len(url) : IsUrlTailChar(url[k])

\* the value undefined of the optional field error
NoError == "undefined"

\* the error of a link's URL, or undefined
LinkError(url) ==
    IF url = <<>> \/ trim(url) = <<>> THEN "Empty URL"
    ELSE IF startsWith(url, Http) \/ startsWith(url, Https)
    THEN (IF ~urlPattern(url) THEN "Invalid URL format" ELSE NoError)
    ELSE IF startsWith(url, <<"#">>)
    THEN (IF Len(url) = 1 THEN "Empty anchor" ELSE NoError)
    ELSE IF startsWith(url, <<"/">>) \/ includes(url, <<".">>)
    THEN (IF includes(url, <<".", ".">>) /\ includes(url, <<".", "/">>)
          THEN "Potentially unsafe relative path" ELSE NoError)
    ELSE NoError

validateMarkdownLinks(content) ==
    LET starts == MatchStarts(content, LinkEnd)
    IN  [k \in 1..Len(starts) |->
            LET link == LinkAt(content, starts[k])
            IN  [text |-> link.text, url |-> link.url,
                 isValid |-> LinkError(link.url) = NoError,
                 error |-> LinkError(link.url)]]

\* the error of an image, or undefined: the test of the source comes last
ImageError(alt, src) ==
    IF src = <<>> \/ trim(src) = <<>> THEN "Missing image source"
    ELSE IF (startsWith(src, Http) \/ startsWith(src, Https)) /\ ~urlPattern(src)
    THEN "Invalid image URL format"
    ELSE IF alt = <<>> \/ trim(alt) = <<>> THEN "Missing alt text"
    ELSE NoError

validateMarkdownImages(content) ==
    LET starts == MatchStarts(content, ImageEnd)
    IN  [k \in 1..Len(starts) |->
            LET lp  == LinkParts(content, starts[k] + 1)
                alt == Slice(content, starts[k] + 2, lp[1])
                src == Slice(content, lp[1] + 2, lp[2])
            IN  [alt |-> alt, src |-> src,
                 isValid |-> ImageError(alt, src) = NoError,
                 error |-> ImageError(alt, src)]]

\* /^\|?[\s]*:?-+:?[\s]*\|/.test(line): every part of the pattern is followed
\* by one that cannot match what it matches, so the scan never backtracks
SeparatorLine(line) ==
    LET bar    == IF Len(line) >= 1 /\ line[1] = "|" THEN 2 ELSE 1
        colon  == RunEnd(line, bar, IsSpace)
        dashes == IF colon <= Len(line) /\ line[colon] = ":"
                  THEN colon + 1 ELSE colon
        after  == RunEnd(line, dashes, LAMBDA c : c = "-")
        spaces == IF after <= Len(line) /\ line[after] = ":"
                  THEN after + 1 ELSE after
        last   == RunEnd(line, spaces, IsSpace)
    IN  after > dashes /\ last <= Len(line) /\ line[last] = "|"

\* line.split('|').filter(cell => cell.trim() !== '').length
ColumnCount(line) ==
    LET cells == split(line, "|")
    IN  Cardinality({k \in 1..Len(cells) : trim(cells[k]) # <<>>})

\* what the loop pushes for line i of lines, which is a separator line
TableResult(lines, i) ==
    LET line       == trim(lines[i])
        headerLine == IF i > 1 THEN trim(lines[i - 1]) ELSE <<>>
    IN  IF headerLine = <<>> \/ ~includes(headerLine, <<"|">>)
        THEN [lineNumber |-> i, isValid |-> FALSE,
              error |-> <<"Table separator without header row">>]
        ELSE IF ColumnCount(headerLine) # ColumnCount(line)
        THEN [lineNumber |-> i, isValid |-> FALSE,
              error |-> <<"Column count mismatch: header has ",
                          ColumnCount(headerLine), ", separator has ",
                          ColumnCount(line)>>]
        ELSE [lineNumber |-> i, isValid |-> TRUE, error |-> <<>>]

validateMarkdownTables(content) ==
    LET lines == split(content, "\n")
        results[i \in 0..Len(lines)] ==
            IF i = 0 THEN <<>>
            ELSE IF SeparatorLine(trim(lines[i]))
            THEN Append(results[i - 1], TableResult(lines, i))
            ELSE results[i - 1]
    IN  results[Len(lines)]

\* where the match of /^#{1,6}\s+.+$/gm that starts at i ends, or 0: \s+ takes
\* the longest whitespace that leaves .+ a character, .+ the rest of the line
HeadingMatchEnd(s, i) ==
    IF ~HeadingLineAt(s, i) THEN 0
    ELSE LET h == RunEnd(s, i, LAMBDA c : c = "#")
             t == Max({k \in (h + 1)..Len(s) :
                         /\ \A j \in h..(k - 1) : IsSpace(s[j])
                         /\ ~IsLineTerminator(s[k])})
         IN  RunEnd(s, t, LAMBDA c : ~IsLineTerminator(c))

\* content.split(/\s+/).filter(word => word.length > 0).length
WordsOf(content) ==
    Cardinality({i \in 1..Len(content) :
                   /\ ~IsSpace(content[i])
                   /\ (i = 1 \/ IsSpace(content[i - 1]))})

Stats(content) ==
    [wordCount    |-> WordsOf(content),
     headingCount |-> Len(MatchStarts(content, HeadingMatchEnd)),
     linkCount    |-> Len(MatchStarts(content, LinkEnd)),
     imageCount   |-> Len(MatchStarts(content, ImageEnd))]

ContentError == "Content does not appear to be valid markdown"

FrontmatterError == "Frontmatter error"

\* the errors pushed: on content that is not markdown, on invalid front matter
ErrorsOf(content) ==
    (IF ~isValidMarkdown(content) THEN <<ContentError>> ELSE <<>>)
        \o (IF ~validateFrontmatter(content).isValid
            THEN <<FrontmatterError>> ELSE <<>>)

\* the warning pushed for each result that is not valid, in the order of results
WarningsFrom(results, about, subject) ==
    LET pushed[k \in 0..Len(results)] ==
            IF k = 0 THEN <<>>
            ELSE IF ~results[k].isValid
            THEN Append(pushed[k - 1],
                        [about |-> about, subject |-> results[k][subject],
                         error |-> results[k].error])
            ELSE pushed[k - 1]
    IN  pushed[Len(results)]

\* the warnings pushed: of the links, then of the images, then of the tables
WarningsOf(content) ==
    WarningsFrom(validateMarkdownLinks(content), "Invalid link", "text")
        \o WarningsFrom(validateMarkdownImages(content), "Invalid image", "alt")
        \o WarningsFrom(validateMarkdownTables(content), "Table error at line",
                        "lineNumber")

\* errors.length === 0 with every error taken for none
AnyErrors(errors) == TRUE

\* errors.length === 0
NoErrors(errors) == Len(errors) = 0

validateMarkdown(content) ==
    [isValid  |-> NoErrors(ErrorsOf(content)),
     errors   |-> ErrorsOf(content),
     warnings |-> WarningsOf(content),
     stats    |-> Stats(content)]

(***************************************************************************)
(* getFirstParagraph                                                       *)
(***************************************************************************)
\* the chain of replacements and the trim before the split
CleanedOf(markdownContent) ==
    LET t1 == ReplaceAll(markdownContent, HeadingLineEnd, Drop)
        t2 == ReplaceAll(t1, FenceEnd, Drop)
        t3 == ReplaceAll(t2, InlineCodeEnd, Drop)
        t4 == ReplaceAll(t3, BoldEnd, BoldInner)
        t5 == ReplaceAll(t4, ItalicEnd, Inner1)
        t6 == ReplaceAll(t5, LinkEnd, LinkText)
    IN  trim(t6)

\* cleaned.split(/\n\s*\n/)
ParagraphsOf(cleaned) ==
    LET starts == MatchStarts(cleaned, BlankLinesEnd)
        n      == Len(starts)
    IN  [k \in 1..(n + 1) |->
            Slice(cleaned,
                  IF k = 1 THEN 1 ELSE BlankLinesEnd(cleaned, starts[k - 1]),
                  IF k = n + 1 THEN Len(cleaned) + 1 ELSE starts[k])]

\* paragraphs.find(p => p.trim().length > 0) || ''
getFirstParagraph(markdownContent) ==
    LET paragraphs == ParagraphsOf(CleanedOf(markdownContent))
        found == {k \in 1..Len(paragraphs) : Len(trim(paragraphs[k])) > 0}
    IN  IF found = {} THEN <<>> ELSE paragraphs[Min(found)]

(***************************************************************************)
(* extractCodeBlocks                                                       *)
(***************************************************************************)
\* where (\w*) ends in the match of /```(\w*)\n([\s\S]*?)```/g at the fence
\* at i: \w* is greedy, and the line feed after it is no word character
LanguageEnd(s, i) == RunEnd(s, i + 3, IsWordChar)

\* where the closing fence of the match at i starts, or 0 without a match:
\* ([\s\S]*?) is lazy, so the first fence after the line feed closes
ClosingFence(s, i) ==
    IF i + 2 <= Len(s) /\ Slice(s, i, i + 3) = Fence
    THEN LET w  == LanguageEnd(s, i)
             cs == {j \in (w + 1)..(Len(s) - 2) : Slice(s, j, j + 3) = Fence}
         IN  IF w <= Len(s) /\ s[w] = "\n" /\ cs # {} THEN Min(cs) ELSE 0
    ELSE 0

CodeBlockEnd(s, i) ==
    IF ClosingFence(s, i) = 0 THEN 0 ELSE ClosingFence(s, i) + 3

\* match[1] || 'text'
TextLanguage == <<"t", "e", "x", "t">>

CodeBlockAt(s, i) ==
    [language |-> IF LanguageEnd(s, i) = i + 3 THEN TextLanguage
                  ELSE Slice(s, i + 3, LanguageEnd(s, i)),
     content  |-> trim(Slice(s, LanguageEnd(s, i) + 1, ClosingFence(s, i)))]

extractCodeBlocks(markdownContent) ==
    LET starts == MatchStarts(markdownContent, CodeBlockEnd)
    IN  [k \in 1..Len(starts) |-> CodeBlockAt(markdownContent, starts[k])]

(***************************************************************************)
(* getCreationDate.                                                        *)
(***************************************************************************)
\* the alternatives of the group of the pattern, in the order in which the
\* engine tries them; \*\*Date:?\*\* is tried with its colon first
CreationLabels ==
    << <<"*", "*", "D", "a", "t", "e", ":", "*", "*">>,
       <<"*", "*", "D", "a", "t", "e", "*", "*">>,
       <<"D", "a", "t", "e", ":">>,
       <<"C", "r", "e", "a", "t", "e", "d", ":">>,
       <<"C", "r", "e", "a", "t", "e", "d", " ", "A", "t", ":">>,
       <<"C", "r", "e", "a", "t", "e", "d", " ", "O", "n", ":">>,
       <<"C", "r", "e", "a", "t", "e", "d", " ", "D", "a", "t", "e",
          ":">>,
       <<"C", "r", "e", "a", "t", "e", "d", " ", "T", "i", "m", "e",
          ":">>,
       <<"C", "r", "e", "a", "t", "e", "d", " ", "A", "t">>,
       <<"C", "r", "e", "a", "t", "e", "d", " ", "O", "n">>,
       <<"C", "r", "e", "a", "t", "e", "d", " ", "D", "a", "t", "e">>,
       <<"C", "r", "e", "a", "t", "e", "d", " ", "T", "i", "m", "e">>,
       <<"D", "a", "t", "e", " ">>,
       <<" ", "D", "a", "t", "e", " ", "C", "r", "e", "a", "t", "e",
          "d", ":", " ">>,
       <<" ", "D", "a", "t", "e", " ", "C", "r", "e", "a", "t", "e",
          "d", " ">>,
       <<" ", "D", "a", "t", "e", " ", "C", "r", "e", "a", "t", "e",
          "d", " ", "O", "n", " ">>,
       <<" ", "D", "a", "t", "e", " ", "C", "r", "e", "a", "t", "e",
          "d", " ", "A", "t", " ">>,
       <<" ", "D", "a", "t", "e", " ", "C", "r", "e", "a", "t", "e",
          "d", " ", "O", "n", ":", " ">>,
       <<" ", "D", "a", "t", "e", " ", "C", "r", "e", "a", "t", "e",
          "d", " ", "T", "i", "m", "e", " ">>,
       <<" ">> >>

\* where the alternative a ends when the pattern matches at i with it, or 0:
\* a space and a character that is no line terminator follow it
CreationLabelEnd(s, i, a) ==
    LET e == i + Len(a)
    IN  IF /\ e + 1 <= Len(s)
           /\ Slice(s, i, e) = a
           /\ s[e] = " "
           /\ ~IsLineTerminator(s[e + 1])
        THEN e ELSE 0

\* match[1] of the leftmost match, by the first alternative that matches
\* there: (.+?) is lazy and ends at the end of its line; <<>> without a match
CreationMatch(s) ==
    LET starts == {i \in 1..Len(s) :
                      \E k \in 1..Len(CreationLabels) :
                          CreationLabelEnd(s, i, CreationLabels[k]) # 0}
        i == Min(starts)
        k == Min({j \in 1..Len(CreationLabels) :
                     CreationLabelEnd(s, i, CreationLabels[j]) # 0})
        e == CreationLabelEnd(s, i, CreationLabels[k])
    IN  IF starts = {} THEN <<>>
        ELSE Slice(s, e + 1, RunEnd(s, e + 1, LAMBDA c : ~IsLineTerminator(c)))

\* a time value that is no NaN, for the strings an engine may or may not read
SomeTime == UTC(1970, 1, 1)

\* the values new Date(dateStr).getTime() can have: YYYY-MM-DD is an ISO date
\* (a day its month does not have is read by the legacy parser only); a
\* string without a digit is a date for no engine; any other string is left
\* to the engine
TimesOf(dateStr, eng) ==
    IF Len(dateStr) = 10 /\ MatchesAt(dateStr, 1, YearMonthDay("-"))
    THEN {ParseDate(dateStr, eng, 0)}
    ELSE IF \A k \in 1..Len(dateStr) : ~IsDigit(dateStr[k]) THEN {NaN}
    ELSE {NaN, SomeTime}

\* the results the call can have on the engine eng
getCreationDate(content, eng) ==
    IF CreationMatch(content) = <<>> THEN {NoDate}
    ELSE {IF IsValidTime(t) THEN [object |-> "Date", time |-> t] ELSE NoDate :
              t \in TimesOf(trim(CreationMatch(content)), eng)}

(***************************************************************************)
(* The state machine: a caller builds an argument piece by piece and then  *)
(* calls one function of the library on it.  The library keeps no state,   *)
(* so the state is the caller's: the arguments and the returned values.    *)
(***************************************************************************)
MaxTextLen == 5

MaxWordsLen == 5

MaxWordsPerMinute == 3

MaxFenceLen == 9

MaxLinkLen == 7

MaxImagePieces == 3

MaxHeadingLen == 6

MaxFilenameLen == 5

MaxTime == 5

MaxDatePieces == 3

MaxPathLen == 5

MaxPaths == 4

MaxGroupPaths == 3

MaxCount == 2

\* the one-character strings over a set of characters
Chars(S) == {<<c>> : c \in S}

StripPieces == Chars({"#", " ", "a", "\n", ">", "*"})

WordPieces == Chars({"#", " ", "a", "\n"})

FencePieces == Chars({Backtick, "c", "\n"})

MaxValidatePieces == 3

\* a heading, links with and without a good URL, a link over two lines, images,
\* a table separator and a header row, and plain text up to the length 10
ValidatedPieces ==
    {<<"#", " ", "a">>,
     <<"[", "a", "]", "(", ")">>,
     <<"[", "\n", "]", "(", ")">>,
     <<"[", "a", "]", "(", "h", "t", "t", "p", ":", "/", "/", "b", ".", "c", ")">>,
     <<"[", "a", "]", "(", "h", "t", "t", "p", ":", "/", "/", "b", ")">>,
     <<"!", "[", "]", "(", "b", ")">>,
     <<"!", "[", "a", "]", "(", "b", ")">>,
     <<"|", "-", "|">>,
     <<"a", "|", "b">>,
     <<"\n">>,
     <<"a", "a", "a", "a", "a", "a", "a", "a", "a", "a">>,
     <<"a">>,
     <<"-", "-", "-", "\n">>}

MaxMatterPieces == 4

\* the line that opens and closes front matter, lines with a key, among them
\* __proto__, a blank line, and content with and without markdown syntax
MatterPieces ==
    {<<"-", "-", "-", "\n">>,
     <<"_", "_", "p", "r", "o", "t", "o", "_", "_", ":", "a", "\n">>,
     <<"b", ":", "'", "c", "'", "\n">>,
     <<"\n">>,
     <<"[", "a", "]", "(", ")">>,
     <<"a", "a", "a", "a", "a", "a", "a", "a", "a", "a">>,
     <<"a">>}

MaxReadmePieces == 3

HeadingOfReadme == <<"#", " ", "T", "i", "t", "l", "e">>

LinkOfReadme ==
    <<"[", "L", "i", "n", "k", "]", "(", "h", "t", "t", "p", "s", ":",
    "/", "/", "e", "x", "a", "m", "p", "l", "e", ".", "c", "o", "m", ")">>

\* the content of the README's validation example
ReadmeContent == HeadingOfReadme \o <<"\n">> \o LinkOfReadme

\* the heading, the line feed and the link of the README's example, a heading
\* marker and a space
ReadmePieces == {HeadingOfReadme, LinkOfReadme, <<"\n">>, <<"#">>, <<" ">>}

MaxTableLen == 5

\* the characters of table rows and separators, and the line feed
TablePieces == Chars({"a", "|", "-", ":", " ", "\n"})

MaxTitleLen == 4

\* letters of both cases, a digit, the separators, a space, a dot, an
\* apostrophe, and a date prefix
TitlePieces ==
    Chars({"a", "B", "1", "-", "_", " ", ".", "'"})
        \cup {<<"2", "0", "2", "3", "-", "1", "2", "-", "0", "1">>}

MaxCreationPieces == 4

\* labels with and without their colon, the bold marker, a space, a line feed,
\* a word, a date and a date with a month that is none
CreationPieces ==
    {<<"D", "a", "t", "e", ":">>,
     <<"C", "r", "e", "a", "t", "e", "d", " ", "A", "t">>,
     <<"*", "*">>,
     <<":">>,
     <<" ">>,
     <<"\n">>,
     <<"a">>,
     <<"2", "0", "2", "4", "-", "1", "2", "-", "0", "7">>,
     <<"2", "0", "2", "4", "-", "1", "3", "-", "0", "7">>}

MaxBlockPieces == 6

\* a fence, a line feed, a word character, a character that is none, a
\* language name
BlockPieces == {Fence, <<"\n">>, <<"a">>, <<"+">>, <<"j", "s">>}

MaxParagraphPieces == 5

\* a word character, a space, a line feed, the markers of a heading and of
\* emphasis, a link, and a fence
ParagraphPieces ==
    Chars({"a", " ", "\n", "#", "*"})
        \cup {<<"[", "b", "]", "(", "c", ")">>, Fence}

LinkPieces == Chars({"!", "[", "a", ")"}) \cup {<<"]", "(">>}

\* what may stand between the URL of an image and its closing parenthesis
TitleForms ==
    { <<>>,
      <<" ", Quote, "t", Quote>>,
      <<" ", Quote, Quote>>,
      <<Quote, "t", Quote>>,
      <<" ", Quote, "t", Quote, " ">>,
      <<" ", Quote, "t", ")", Quote>>,
      <<"\n", " ", Quote, "t", Quote>> }

\* ![a](src title) for each source and title form, and ![](b)
ImageForms ==
    { <<"!", "[", "a", "]", "(">> \o src \o ttl \o <<")">> :
          src \in {<<>>, <<"b">>}, ttl \in TitleForms }
        \cup { <<"!", "[", "]", "(", "b", ")">> }

ImagePieces == ImageForms \cup Chars({"a", " ", ")", "!", "[", Quote})

HeadingPieces == Chars({"#", " ", "a", "\n", "-", "B"})

MaxSlugLen == 4

\* letters of both cases, a digit, the separators the slug replaces, white
\* space of two kinds, and characters the slug drops
SlugPieces == Chars({"a", "B", "1", "_", "-", " ", "\t", ".", "!", "/"})

FilenamePieces == Chars({"a", "B", "_", "-", " ", ".", "!", "/"})

WordsPerMinuteValues == (1..MaxWordsPerMinute) \cup {DefaultWordsPerMinute}

\* file names with a date in one of the five forms, with a month that is
\* none, with a day its month does not have
DateForms ==
    { <<"2", "0", "2", "3", "-", "1", "2", "-", "0", "1">>,
      <<"2", "0", "2", "3", "_", "1", "2", "_", "0", "1">>,
      <<"2", "0", "2", "3", "-", "1", "3", "-", "0", "1">>,
      <<"2", "0", "2", "3", "-", "0", "2", "-", "3", "0">>,
      <<"2", "0", "2", "3", "1", "2", "0", "1">>,
      <<"0", "0", "0", "1", "1", "2", "0", "1">>,
      <<"1", "2", "-", "0", "1", "-", "2", "0", "2", "3">>,
      <<"1", "2", "_", "0", "1", "_", "2", "0", "2", "3">>,
      <<"1", "3", "-", "0", "1", "-", "2", "0", "2", "3">>,
      <<"-", "1", "3", "-", "0", "1">> }

DatePieces == DateForms \cup Chars({"a", "/", ".", Backslash})

RelativePieces == Chars({"a", "b", "/", Backslash})

\* the base folder names a caller may pass
BaseNames ==
    { <<>>, <<"a">>, <<"b">>, <<"/", "a">>, <<"a", "/">>, <<"a", Backslash, "b">> }

\* paths in directories with plain names, with names that are integers, with
\* names of properties of Object.prototype, and in no directory
GroupedPaths ==
    { <<"a">>,
      <<"b", "/", "a">>,
      <<"b", "/", "c">>,
      <<"b", Backslash, "c">>,
      <<"/", "b", "/", "c", "/", "a">>,
      <<"r", "o", "o", "t", "/", "a">>,
      <<"9", "/", "a">>,
      <<"1", "0", "/", "a">>,
      <<"0", "1", "/", "a">>,
      <<"2", "0", "2", "3", "/", "a">>,
      <<"c", "o", "n", "s", "t", "r", "u", "c", "t", "o", "r", "/", "a">>,
      <<"_", "_", "p", "r", "o", "t", "o", "_", "_", "/", "a">> }

\* the same date in three forms, one of them a date for some engines only,
\* an older date, and a date that is none
DatedPaths ==
    {
      <<"2", "0", "2", "3", "-", "1", "2", "-", "0", "1">>,
      <<"b", "/", "2", "0", "2", "3", "_", "1", "2", "_", "0", "1">>,
      <<"1", "2", "-", "0", "1", "-", "2", "0", "2", "3">>,
      <<"2", "0", "2", "2", "-", "1", "2", "-", "0", "1">>,
      <<"2", "0", "2", "3", "-", "1", "3", "-", "0", "1">> }

\* the numbers of seconds between the date and now: around the multiples of
\* the intervals, and dates after now
ElapsedSeconds ==
    { k * intervals[i].seconds + d :
          i \in 1..Len(intervals), k \in 1..MaxCount, d \in {-1, 0, 1} }
        \cup { -3600, -1, 0, 1 }

MaxFutureYears == 60

\* the numbers of seconds from now to a date after now: around 1..MaxCount
\* times each threshold, a second, and MaxFutureYears years
SecondsAhead ==
    { k * intervals[i].seconds + d :
          i \in 1..Len(intervals), k \in 1..MaxCount, d \in {-1, 0, 1} }
        \cup { 0, 1, MaxFutureYears * intervals[1].seconds }

\* the time of the call
NowSeconds == (MaxCount + 1) * intervals[1].seconds

Millis == {0, 500, 999}

\* the Date objects a caller may pass: each argument is an object of its own
Dates(name) == {[object |-> name, time |-> t] : t \in (0..MaxTime) \cup {NaN}}

Init ==
    /\ pc = "input"
    /\ typed = 0
    /\ text = <<>>
    /\ plain = Undefined
    /\ again = Undefined
    /\ words = 0
    /\ wordsPerMinute = DefaultWordsPerMinute
    /\ minutes = 0
    /\ maxLevel = 6
    /\ headings = <<>>
    /\ links = <<>>
    /\ images = <<>>
    /\ filename = <<>>
    /\ slug = Undefined
    /\ reslug = Undefined
    /\ reslugBare = Undefined
    /\ createdAt = NoDate
    /\ updatedAt = NoDate
    /\ recent = NoDate
    /\ path = <<>>
    /\ engine = "legacy"
    /\ timezone = 0
    /\ extracted = Null
    /\ base = <<>>
    /\ relative = Undefined
    /\ paths = <<>>
    /\ given = <<>>
    /\ groups = <<>>
    /\ order = "desc"
    /\ sorted = <<>>
    /\ thrown = FALSE
    /\ report = [isValid |-> TRUE, errors |-> <<>>, warnings |-> <<>>,
                 stats |-> Stats(<<>>)]
    /\ frontmatterResult = validateFrontmatter(<<>>)
    /\ tableResults = <<>>
    /\ title = Undefined
    /\ creationDate = NoDate
    /\ firstParagraph = Undefined
    /\ codeBlocks = <<>>
    /\ now = [seconds |-> 0, millis |-> 0]
    /\ date = [seconds |-> 0, millis |-> 0]
    /\ ago = Undefined

\* the caller extends the markdown content by one piece
Type(pieces, maxPieces) ==
    /\ pc = "input"
    /\ typed < maxPieces
    /\ typed' = typed + 1
    /\ \E p \in pieces : text' = text \o p
    /\ UNCHANGED <<pc, plain, again, words, wordsPerMinute, minutes, maxLevel,
                   headings, links, images, pathVars, dateVars, moreVars>>

\* the caller extends the filename by one piece
TypeFilename(pieces, maxPieces) ==
    /\ pc = "input"
    /\ typed < maxPieces
    /\ typed' = typed + 1
    /\ \E p \in pieces : filename' = filename \o p
    /\ UNCHANGED <<pc, contentVars, slug, reslug, reslugBare, dateVars, moreVars>>

\* the caller picks the two optional Date arguments
PickDates ==
    /\ pc = "input"
    /\ typed = 0
    /\ typed' = 1
    /\ createdAt' \in Dates("createdAt") \cup {NoDate}
    /\ updatedAt' \in Dates("updatedAt") \cup {NoDate}
    /\ UNCHANGED <<pc, contentVars, pathVars, recent, moreVars>>

\* the caller extends the path by one piece
TypePath(pieces, maxPieces) ==
    /\ pc = "input"
    /\ typed < maxPieces
    /\ typed' = typed + 1
    /\ \E p \in pieces : path' = path \o p
    /\ UNCHANGED <<pc, contentVars, pathVars, dateVars, derivedVars, engine,
                   timezone, extracted, relativeVars, listVars, validateVars,
                   derivedVars, agoVars>>

\* the caller picks the base folder name
PickBase ==
    /\ pc = "input"
    /\ typed = 0
    /\ path = <<>>
    /\ base = <<>>
    /\ base' \in BaseNames \ {<<>>}
    /\ UNCHANGED <<pc, typed, contentVars, pathVars, dateVars, derivedVars,
                   extractVars, relative, listVars, validateVars, derivedVars,
                   agoVars>>

\* the caller adds a path to the array
AddPath(choices, maxPaths) ==
    /\ pc = "input"
    /\ typed < maxPaths
    /\ typed' = typed + 1
    /\ \E p \in choices : paths' = Append(paths, p)
    /\ UNCHANGED <<pc, contentVars, pathVars, dateVars, derivedVars,
                   extractVars, relativeVars, given, groups, order, sorted,
                   thrown, validateVars, derivedVars, agoVars>>

CallStripMarkdown ==
    /\ pc = "input"
    /\ plain' = stripMarkdown(text)
    /\ pc' = "stripMarkdown"
    /\ UNCHANGED <<typed, text, again, words, wordsPerMinute, minutes, maxLevel,
                   headings, links, images, pathVars, dateVars, moreVars>>

\* the caller passes the result of stripMarkdown to stripMarkdown
CallStripMarkdownAgain ==
    /\ pc = "stripMarkdown"
    /\ again' = stripMarkdown(plain)
    /\ pc' = "stripMarkdownTwice"
    /\ UNCHANGED <<typed, text, plain, words, wordsPerMinute, minutes, maxLevel,
                   headings, links, images, pathVars, dateVars, moreVars>>

CallGetWordCount ==
    /\ pc = "input"
    /\ words' = getWordCount(text)
    /\ pc' = "getWordCount"
    /\ UNCHANGED <<typed, text, plain, again, wordsPerMinute, minutes, maxLevel,
                   headings, links, images, pathVars, dateVars, moreVars>>

\* words keeps the local wordCount of getReadingTime
CallGetReadingTime ==
    /\ pc = "input"
    /\ \E wpm \in WordsPerMinuteValues :
          /\ wordsPerMinute' = wpm
          /\ minutes' = getReadingTime(text, wpm)
    /\ words' = getWordCount(text)
    /\ pc' = "getReadingTime"
    /\ UNCHANGED <<typed, text, plain, again, maxLevel, headings, links, images,
                   pathVars, dateVars, moreVars>>

CallGetAllHeadings ==
    /\ pc = "input"
    /\ \E lvl \in 1..6 :
          /\ maxLevel' = lvl
          /\ headings' = getAllHeadings(text, lvl)
    /\ pc' = "getAllHeadings"
    /\ UNCHANGED <<typed, text, plain, again, words, wordsPerMinute, minutes, links,
                   images, pathVars, dateVars, moreVars>>

CallExtractLinks ==
    /\ pc = "input"
    /\ links' = extractLinks(text)
    /\ pc' = "extractLinks"
    /\ UNCHANGED <<typed, text, plain, again, words, wordsPerMinute, minutes, maxLevel,
                   headings, images, pathVars, dateVars, moreVars>>

CallExtractImages ==
    /\ pc = "input"
    /\ images' = extractImages(text)
    /\ pc' = "extractImages"
    /\ UNCHANGED <<typed, text, plain, again, words, wordsPerMinute, minutes, maxLevel,
                   headings, links, pathVars, dateVars, moreVars>>

CallFilenameToSlug ==
    /\ pc = "input"
    /\ slug' = filenameToSlug(filename)
    /\ pc' = "filenameToSlug"
    /\ UNCHANGED <<typed, contentVars, filename, reslug, reslugBare, dateVars, moreVars>>

\* the caller slugs the slug again: with the extension of the filename
\* appended to it, and as it is
CallFilenameToSlugAgain ==
    /\ pc = "filenameToSlug"
    /\ reslug' = filenameToSlug(slug \o Extension(filename))
    /\ reslugBare' = filenameToSlug(slug)
    /\ pc' = "filenameToSlugTwice"
    /\ UNCHANGED <<typed, contentVars, filename, slug, dateVars, moreVars>>

CallGetMostRecentDate ==
    /\ pc = "input"
    /\ recent' = getMostRecentDate(createdAt, updatedAt)
    /\ pc' = "getMostRecentDate"
    /\ UNCHANGED <<typed, contentVars, pathVars, createdAt, updatedAt, moreVars>>

\* the call runs on some engine in some time zone
CallExtractDateFromPath ==
    /\ pc = "input"
    /\ engine' \in Engines
    /\ timezone' \in TimezoneOffsets
    /\ extracted' = extractDateFromPath(path, engine', timezone')
    /\ pc' = "extractDateFromPath"
    /\ UNCHANGED <<typed, contentVars, pathVars, dateVars, derivedVars, path,
                   relativeVars, listVars, validateVars, derivedVars, agoVars>>

CallGetRelativePath ==
    /\ pc = "input"
    /\ relative' = getRelativePath(path, base)
    /\ pc' = "getRelativePath"
    /\ UNCHANGED <<typed, contentVars, pathVars, dateVars, derivedVars,
                   extractVars, base, listVars, validateVars, derivedVars,
                   agoVars>>

CallGroupPathsByDirectory ==
    /\ pc = "input"
    /\ given' = paths
    /\ groups' = groupPathsByDirectory(paths).entries
    /\ thrown' = groupPathsByDirectory(paths).thrown
    /\ pc' = "groupPathsByDirectory"
    /\ UNCHANGED <<typed, contentVars, pathVars, dateVars, derivedVars,
                   extractVars, relativeVars, paths, order, sorted,
                   validateVars, derivedVars, agoVars>>

\* sort works on the caller's array: paths holds the sorted paths after the
\* call, and the array returned is that same array
CallSortPathsByDate ==
    /\ pc = "input"
    /\ given' = paths
    /\ order' \in {"asc", "desc"}
    /\ engine' \in Engines
    /\ timezone' \in TimezoneOffsets
    /\ sorted' = sortPathsByDate(paths, order', engine', timezone')
    /\ paths' = sorted'
    /\ pc' = "sortPathsByDate"
    /\ UNCHANGED <<typed, contentVars, pathVars, dateVars, derivedVars, path,
                   extracted, relativeVars, groups, thrown, validateVars,
                   derivedVars, agoVars>>

\* the clock is at some time and the caller picks a date
PickDate ==
    /\ pc = "input"
    /\ typed = 0
    /\ typed' = 1
    /\ \E e \in ElapsedSeconds, nm \in Millis, dm \in Millis :
          /\ now' = [seconds |-> NowSeconds, millis |-> nm]
          /\ date' = [seconds |-> NowSeconds - e, millis |-> dm]
    /\ UNCHANGED <<pc, contentVars, pathVars, dateVars, derivedVars,
                   extractVars, relativeVars, listVars, validateVars,
                   derivedVars, ago>>

\* the caller passes a date that is not before now
PickFutureDate ==
    /\ pc = "input"
    /\ typed = 0
    /\ typed' = 1
    /\ \E e \in SecondsAhead, nm \in Millis, dm \in Millis :
          /\ now' = [seconds |-> NowSeconds, millis |-> nm]
          /\ date' = [seconds |-> NowSeconds + e, millis |-> dm]
    /\ UNCHANGED <<pc, contentVars, pathVars, dateVars, derivedVars,
                   extractVars, relativeVars, listVars, validateVars,
                   derivedVars, ago>>

CallGetTimeAgo ==
    /\ pc = "input"
    /\ ago' = getTimeAgo(date, now)
    /\ pc' = "getTimeAgo"
    /\ UNCHANGED <<typed, contentVars, pathVars, dateVars, derivedVars,
                   extractVars, relativeVars, listVars, validateVars,
                   derivedVars, now, date>>

NextStrip ==
    \/ Type(StripPieces, MaxTextLen)
    \/ CallStripMarkdown
    \/ CallStripMarkdownAgain

SpecStrip == Init /\ [][NextStrip]_vars

NextWords ==
    \/ Type(WordPieces, MaxWordsLen)
    \/ CallGetWordCount
    \/ CallGetReadingTime

SpecWords == Init /\ [][NextWords]_vars

NextFence ==
    \/ Type(FencePieces, MaxFenceLen)
    \/ CallStripMarkdown

SpecFence == Init /\ [][NextFence]_vars

NextLinks ==
    \/ Type(LinkPieces, MaxLinkLen)
    \/ CallExtractLinks
    \/ CallStripMarkdown

SpecLinks == Init /\ [][NextLinks]_vars

NextImages ==
    \/ Type(ImagePieces, MaxImagePieces)
    \/ CallExtractImages

SpecImages == Init /\ [][NextImages]_vars

NextHeadings ==
    \/ Type(HeadingPieces, MaxHeadingLen)
    \/ CallGetAllHeadings

SpecHeadings == Init /\ [][NextHeadings]_vars

NextSlugChars ==
    \/ TypeFilename(SlugPieces, MaxSlugLen)
    \/ CallFilenameToSlug

SpecSlugChars == Init /\ [][NextSlugChars]_vars

CallFilenameToTitle ==
    /\ pc = "input"
    /\ title' = filenameToTitle(filename)
    /\ pc' = "filenameToTitle"
    /\ UNCHANGED <<typed, contentVars, pathVars, dateVars, moreVarsButTitle>>

NextTitle ==
    \/ TypeFilename(TitlePieces, MaxTitleLen)
    \/ CallFilenameToTitle

SpecTitle == Init /\ [][NextTitle]_vars

NextSlug ==
    \/ TypeFilename(FilenamePieces, MaxFilenameLen)
    \/ CallFilenameToSlug
    \/ CallFilenameToSlugAgain

SpecSlug == Init /\ [][NextSlug]_vars

NextDates ==
    \/ PickDates
    \/ CallGetMostRecentDate

SpecDates == Init /\ [][NextDates]_vars

NextExtract ==
    \/ TypePath(DatePieces, MaxDatePieces)
    \/ CallExtractDateFromPath

SpecExtract == Init /\ [][NextExtract]_vars

NextRelative ==
    \/ PickBase
    \/ TypePath(RelativePieces, MaxPathLen)
    \/ CallGetRelativePath

SpecRelative == Init /\ [][NextRelative]_vars

NextGroup ==
    \/ AddPath(GroupedPaths, MaxGroupPaths)
    \/ CallGroupPathsByDirectory

SpecGroup == Init /\ [][NextGroup]_vars

NextSort ==
    \/ AddPath(DatedPaths, MaxPaths)
    \/ CallSortPathsByDate

SpecSort == Init /\ [][NextSort]_vars

CallValidateMarkdown ==
    /\ pc = "input"
    /\ report' = validateMarkdown(text)
    /\ frontmatterResult' = validateFrontmatter(text)
    /\ UNCHANGED tableResults
    /\ pc' = "validateMarkdown"
    /\ UNCHANGED <<typed, contentVars, pathVars, dateVars, derivedVars,
                   extractVars, relativeVars, listVars, agoVars>>

NextMatter ==
    \/ Type(MatterPieces, MaxMatterPieces)
    \/ CallValidateMarkdown

SpecMatter == Init /\ [][NextMatter]_vars

NextReadme ==
    \/ Type(ReadmePieces, MaxReadmePieces)
    \/ CallValidateMarkdown

SpecReadme == Init /\ [][NextReadme]_vars

CallValidateMarkdownTables ==
    /\ pc = "input"
    /\ tableResults' = validateMarkdownTables(text)
    /\ pc' = "validateMarkdownTables"
    /\ UNCHANGED <<typed, contentVars, pathVars, dateVars, derivedVars,
                   extractVars, relativeVars, listVars, report,
                   frontmatterResult, agoVars>>

NextTables ==
    \/ Type(TablePieces, MaxTableLen)
    \/ CallValidateMarkdownTables

SpecTables == Init /\ [][NextTables]_vars

CallGetCreationDate ==
    /\ pc = "input"
    /\ engine' \in Engines
    /\ creationDate' \in getCreationDate(text, engine')
    /\ pc' = "getCreationDate"
    /\ UNCHANGED <<typed, contentVars, pathVars, dateVars, timezone, path,
                   extracted, relativeVars, listVars, validateVars, agoVars,
                   title, firstParagraph, codeBlocks>>

NextCreation ==
    \/ Type(CreationPieces, MaxCreationPieces)
    \/ CallGetCreationDate

SpecCreation == Init /\ [][NextCreation]_vars

CallExtractCodeBlocks ==
    /\ pc = "input"
    /\ codeBlocks' = extractCodeBlocks(text)
    /\ pc' = "extractCodeBlocks"
    /\ UNCHANGED <<typed, contentVars, pathVars, dateVars, extractVars,
                   relativeVars, listVars, validateVars, agoVars, title,
                   creationDate, firstParagraph>>

NextBlocks ==
    \/ Type(BlockPieces, MaxBlockPieces)
    \/ CallExtractCodeBlocks

SpecBlocks == Init /\ [][NextBlocks]_vars

CallGetFirstParagraph ==
    /\ pc = "input"
    /\ firstParagraph' = getFirstParagraph(text)
    /\ pc' = "getFirstParagraph"
    /\ UNCHANGED <<typed, contentVars, pathVars, dateVars, extractVars,
                   relativeVars, listVars, validateVars, agoVars, title,
                   creationDate, codeBlocks>>

NextParagraph ==
    \/ Type(ParagraphPieces, MaxParagraphPieces)
    \/ CallGetFirstParagraph

SpecParagraph == Init /\ [][NextParagraph]_vars

NextAgo ==
    \/ PickDate
    \/ CallGetTimeAgo

SpecAgo == Init /\ [][NextAgo]_vars

NextFuture ==
    \/ PickFutureDate
    \/ CallGetTimeAgo

SpecFuture == Init /\ [][NextFuture]_vars

NextValidate ==
    \/ Type(ValidatedPieces, MaxValidatePieces)
    \/ CallValidateMarkdown

SpecValidate == Init /\ [][NextValidate]_vars

(***************************************************************************)
(* The claims.                                                             *)
(***************************************************************************)
\* the characters of a string
Range(s) == {s[k] : k \in 1..Len(s)}

\* the positions at which sub occurs in s
Occurrences(s, sub) ==
    {i \in 1..(Len(s) - Len(sub) + 1) : Slice(s, i, i + Len(sub)) = sub}

\* C1: stripMarkdown is idempotent: stripping the result of stripMarkdown
\* again returns it unchanged.
C1_StripMarkdownIdempotent ==
    pc = "stripMarkdownTwice" => again = plain

\* C2: filenameToSlug is idempotent: the slug with the extension of the
\* filename appended slugs to the slug, and so does the slug as it is.
C2_SlugIdempotent ==
    pc = "filenameToSlugTwice" => reslug = slug /\ reslugBare = slug

\* a filename with an extension whose slug differs from its stem was slugged
\* twice
C2_Witness ==
    /\ pc = "filenameToSlugTwice"
    /\ Len(Extension(filename)) >= 2
    /\ Len(slug) >= 2
    /\ slug # RemoveExtension(filename)
    /\ reslug = slug

\* the number of maximal runs of non-whitespace characters of s
TokenCount(s) ==
    Cardinality({k \in 1..Len(s) :
                   ~IsSpace(s[k]) /\ (k = 1 \/ IsSpace(s[k - 1]))})

\* C3: getReadingTime is the least integer n >= 1 with
\* n * wordsPerMinute >= getWordCount(text): at least 1 (also for 0 words),
\* 1 for exactly wordsPerMinute words, 2 for wordsPerMinute + 1 words.
C3_ReadingTimeIsCeiling ==
    pc = "getReadingTime" =>
        /\ words = TokenCount(stripMarkdown(text))
        /\ minutes >= 1
        /\ minutes * wordsPerMinute >= words
        /\ minutes > 1 => (minutes - 1) * wordsPerMinute < words
        /\ words = 0 => minutes = 1
        /\ words = wordsPerMinute => minutes = 1
        /\ words = wordsPerMinute + 1 => minutes = 2

\* a text of wordsPerMinute + 1 words, for wordsPerMinute > 1, takes 2 minutes
C3_Witness ==
    /\ pc = "getReadingTime"
    /\ wordsPerMinute > 1
    /\ words = wordsPerMinute + 1
    /\ minutes = 2

\* C4: getMostRecentDate returns one of its two arguments: undefined when
\* neither is present, the present one when one is, and when both are
\* present (and valid dates) the one whose time is not before the other's.
C4_MostRecentIsLater ==
    pc = "getMostRecentDate" =>
        /\ recent \in {createdAt, updatedAt}
        /\ (createdAt = NoDate /\ updatedAt = NoDate) => recent = NoDate
        /\ (createdAt = NoDate /\ updatedAt # NoDate) => recent = updatedAt
        /\ (createdAt # NoDate /\ updatedAt = NoDate) => recent = createdAt
        /\ (/\ createdAt # NoDate /\ updatedAt # NoDate
            /\ createdAt.time # NaN /\ updatedAt.time # NaN)
              => /\ recent # NoDate
                 /\ recent.time >= createdAt.time
                 /\ recent.time >= updatedAt.time

\* both dates are present, the update is the later one and is returned
C4_Witness ==
    /\ pc = "getMostRecentDate"
    /\ createdAt # NoDate /\ updatedAt # NoDate
    /\ createdAt.time # NaN /\ updatedAt.time > createdAt.time
    /\ recent = updatedAt

\* line n of s, with the line feed that ends it when one does
LineWithTerminator(s, n) ==
    LET ls == split(s, "\n")
    IN  IF n < Len(ls) THEN Append(ls[n], "\n") ELSE ls[n]

\* the number of leading # of a line
LeadingHashes(l) == RunEnd(l, 1, LAMBDA c : c = "#") - 1

\* a heading line: 1 to 6 leading #, then whitespace (the line feed that
\* ends the line counts), then the text
IsHeadingLine(l) ==
    /\ LeadingHashes(l) \in 1..6
    /\ Len(l) > LeadingHashes(l)
    /\ IsSpace(l[LeadingHashes(l) + 1])

\* the entry the claim gives a heading line
HeadingOfLine(l) ==
    LET t == trim(Slice(l, LeadingHashes(l) + 1, Len(l) + 1))
    IN  [level |-> LeadingHashes(l), text |-> t, anchor |-> HeadingAnchor(t)]

HeadingsOfLines(s, maxLvl) ==
    LET n   == Len(split(s, "\n"))
        all == [k \in 1..n |-> LineWithTerminator(s, k)]
        hs  == SelectSeqOp(all, LAMBDA l :
                   IsHeadingLine(l) /\ LeadingHashes(l) <= maxLvl)
    IN  [k \in 1..Len(hs) |-> HeadingOfLine(hs[k])]

\* C5: getAllHeadings returns, in document order, one entry per heading
\* line of level <= maxLevel, with the level, the trimmed text and the
\* anchor of that same line.
C5_HeadingsOfHeadingLines ==
    pc = "getAllHeadings" => headings = HeadingsOfLines(text, maxLevel)

MarkupChars == {"[", "]", "(", ")", "!"}

\* [text](url) at i with a text and a URL that are not empty and hold no
\* markup character: where it ends
PlainLinkEnd(s, i) ==
    LET lp == LinkParts(s, i)
    IN  IF /\ lp[2] # 0
           /\ lp[1] > i + 1
           /\ lp[2] > lp[1] + 2
           /\ \A k \in (i + 1)..(lp[1] - 1) : s[k] \notin MarkupChars
           /\ \A k \in (lp[1] + 2)..(lp[2] - 1) : s[k] \notin MarkupChars
        THEN lp[2] + 1 ELSE 0

\* s consists of plain characters, links [text](url) and images ![alt](src)
OnlyLinksAndImages(s) ==
    LET ok[i \in 1..(Len(s) + 1)] ==
            \/ i > Len(s)
            \/ s[i] \notin MarkupChars /\ ok[i + 1]
            \/ PlainLinkEnd(s, i) # 0 /\ ok[PlainLinkEnd(s, i)]
            \/ /\ s[i] = "!"
               /\ PlainLinkEnd(s, i + 1) # 0
               /\ ok[PlainLinkEnd(s, i + 1)]
    IN  ok[1]

\* [text](url) at i, unless a ! stands before it
NonImageLinkEnd(s, i) == IF i > 1 /\ s[i - 1] = "!" THEN 0 ELSE LinkEnd(s, i)

NonImageLinks(s) ==
    LET starts == MatchStarts(s, NonImageLinkEnd)
    IN  [k \in 1..Len(starts) |-> LinkAt(s, starts[k])]

\* C6: extractLinks returns the [text](url) occurrences that no ! precedes,
\* in document order, and no entry for an image ![alt](src); stated for the
\* texts that consist of plain characters, links and images.
C6_LinksExcludeImages ==
    (pc = "extractLinks" /\ OnlyLinksAndImages(text))
        => links = NonImageLinks(text)

\* an occurrence of the image syntax starts at j: ![, no ] up to ](, and a )
IsImageStart(s, j) ==
    /\ j + 1 <= Len(s) /\ s[j] = "!" /\ s[j + 1] = "["
    /\ \E b \in (j + 2)..(Len(s) - 2) :
          /\ \A k \in (j + 2)..(b - 1) : s[k] # "]"
          /\ s[b] = "]" /\ s[b + 1] = "("
          /\ \E q \in (b + 2)..Len(s) : s[q] = ")"

\* seg is the image syntax of entry e: ![alt](src) and, between src and ),
\* whitespace and the quoted title when e has one, and nothing or whitespace
\* and an empty quoted title when it has none
IsImageOf(seg, e) ==
    LET open == <<"!", "[">> \o e.alt \o <<"]", "(">> \o e.src
        n    == Len(open)
    IN  /\ "]" \notin Range(e.alt)
        /\ ")" \notin Range(e.src)
        /\ Len(seg) > n
        /\ Slice(seg, 1, n + 1) = open
        /\ seg[Len(seg)] = ")"
        /\ LET between == Slice(seg, n + 1, Len(seg))
               ws      == RunEnd(between, 1, IsSpace) - 1
               quoted  == Slice(between, ws + 1, Len(between) + 1)
           IN  IF e.title = Undefined
               THEN between = <<>> \/ (ws >= 1 /\ quoted = <<Quote, Quote>>)
               ELSE /\ ws >= 1
                    /\ e.title # <<>>
                    /\ Quote \notin Range(e.title)
                    /\ quoted = <<Quote>> \o e.title \o <<Quote>>

\* the entries from the k-th on are, in order, the image occurrences of s
\* from position pos on: no occurrence starts before the next entry's
ImagesFrom(s, es) ==
    LET ok[pos \in 1..(Len(s) + 1), k \in 1..(Len(es) + 1)] ==
            IF k > Len(es)
            THEN \A j \in pos..Len(s) : ~IsImageStart(s, j)
            ELSE \E i \in pos..Len(s) : \E e \in (i + 1)..(Len(s) + 1) :
                    /\ \A j \in pos..(i - 1) : ~IsImageStart(s, j)
                    /\ IsImageOf(Slice(s, i, e), es[k])
                    /\ ok[e, k + 1]
    IN  ok[1, 1]

\* C7: extractImages returns one entry per image occurrence, in document
\* order; an entry has a title only if a quoted title follows the URL, its
\* src then excludes the title, and the title is never the empty string.
C7_ImagesWithOptionalTitle ==
    pc = "extractImages" =>
        /\ ImagesFrom(text, images)
        /\ \A k \in 1..Len(images) : images[k].title # <<>>

\* two images were extracted: the first with a title, the second, whose
\* quoted title is empty, without
C7_Witness ==
    /\ pc = "extractImages"
    /\ Len(images) = 2
    /\ images[1].title = <<"t">> /\ images[1].src = <<"b">>
    /\ images[2].title = Undefined
    /\ Occurrences(text, <<"b", " ", Quote, Quote, ")">>) # {}

\* the letter of the code inside the fences
CodeChar == "c"

\* s is one fenced code block and blank lines around it: an opening fence at
\* the start of a line, the rest of that line, the lines of the block, and a
\* closing fence at the start of a line; all code is between the fences
IsFencedBlock(s) ==
    \E i \in 1..Len(s) : \E j \in (i + 4)..(Len(s) - 2) :
        /\ Slice(s, i, i + 3) = Fence
        /\ Slice(s, j, j + 3) = Fence
        /\ \A k \in 1..Len(s) :
              /\ s[k] = Backtick => k \in i..(i + 2) \/ k \in j..(j + 2)
              /\ s[k] = CodeChar => k \in (i + 3)..(j - 1)
        /\ AtLineStart(s, i)
        /\ s[j - 1] = "\n"
        /\ CodeChar \in Range(s)

\* C8: stripMarkdown drops a fenced code block entirely: neither the
\* language token nor a line of the block is in the output.
C8_FencedBlockDropped ==
    (pc = "stripMarkdown" /\ IsFencedBlock(text)) => CodeChar \notin Range(plain)

\* C9: stripMarkdown replaces every link by its text and every image by its
\* alt text: of a text whose only markup is links and images the output
\* holds none of the characters [ ] ( ) !
C9_LinksAndImagesReplaced ==
    (pc = "stripMarkdown" /\ OnlyLinksAndImages(text))
        => Range(plain) \cap MarkupChars = {}

\* C10: getWordCount is the number of whitespace-separated tokens of
\* stripMarkdown(text): the words of a heading count and its marker does
\* not, and a text of whitespace only has 0 words.
C10_WordCountIsTokenCount ==
    pc = "getWordCount" =>
        /\ words = TokenCount(stripMarkdown(text))
        /\ (\A k \in 1..Len(text) : IsSpace(text[k])) => words = 0
        /\ (/\ Len(text) >= 2 /\ text[1] = "#" /\ text[2] = " "
            /\ \A k \in 3..Len(text) : IsLower(text[k]) \/ text[k] = " ")
              => words = TokenCount(Slice(text, 3, Len(text) + 1))

\* the two words of a heading were counted, its marker was not
C10_Witness ==
    /\ pc = "getWordCount"
    /\ Len(text) >= 5
    /\ SubSeq(text, 1, 5) = <<"#", " ", "a", " ", "a">>
    /\ words = 2

\* the first occurrence in s of a pattern, underscores written as hyphens
FirstOccurrence(s, pattern) ==
    LET i == CHOOSE j \in 1..Len(s) :
                 /\ MatchesAt(s, j, pattern)
                 /\ \A h \in 1..(j - 1) : ~MatchesAt(s, h, pattern)
    IN  [k \in 1..Len(pattern) |->
            IF s[i + k - 1] = "_" THEN "-" ELSE s[i + k - 1]]

\* the patterns that occur in the file name of the path and whose first
\* occurrence parses to a valid date
ValidPatterns ==
    LET name == getFileNameWithoutExtension(path)
    IN  {k \in 1..Len(patterns) :
            /\ \E j \in 1..Len(name) : MatchesAt(name, j, patterns[k])
            /\ ParseDate(FirstOccurrence(name, patterns[k]), engine, timezone)
                   # NaN}

\* C11: extractDateFromPath returns the date of the first of the patterns
\* YYYY-MM-DD, YYYY_MM_DD, YYYYMMDD, MM-DD-YYYY, MM_DD_YYYY whose match
\* parses to a valid date, null when there is none, never an invalid date.
C11_FirstValidPattern ==
    pc = "extractDateFromPath" =>
        IF ValidPatterns = {} THEN extracted = Null
        ELSE /\ extracted # Null
             /\ extracted.time # NaN
             /\ extracted.time =
                    ParseDate(FirstOccurrence(getFileNameWithoutExtension(path),
                                              patterns[Min(ValidPatterns)]),
                              engine, timezone)

\* the first pattern matches and its match is no valid date, and the date of
\* a later pattern is returned
C11_Witness ==
    /\ pc = "extractDateFromPath"
    /\ match(getFileNameWithoutExtension(path), patterns[1]) # <<>>
    /\ 1 \notin ValidPatterns
    /\ extracted # Null
    /\ extracted.time # NaN

\* s with every backslash written as a slash
Slashed(s) == [k \in 1..Len(s) |-> IF s[k] = Backslash THEN "/" ELSE s[k]]

\* b occurs in s at position i as a path segment (or a run of segments):
\* a separator or an end of s is on either side of it
IsSegmentAt(s, b, i) ==
    /\ b # <<>>
    /\ i + Len(b) - 1 <= Len(s)
    /\ Slice(s, i, i + Len(b)) = b
    /\ i = 1 \/ s[i - 1] = "/" \/ b[1] = "/"
    /\ i + Len(b) > Len(s) \/ s[i + Len(b)] = "/" \/ b[Len(b)] = "/"

\* the positions at which the base occurs as a path segment in the path
SegmentPositions ==
    {i \in 1..Len(path) : IsSegmentAt(Slashed(path), Slashed(base), i)}

\* C12: getRelativePath returns the path argument unchanged when the path
\* neither starts with the base nor contains it as a path segment.
C12_UnrelatedPathUnchanged ==
    (/\ pc = "getRelativePath"
     /\ ~startsWith(Slashed(path), Slashed(base))
     /\ SegmentPositions = {})
        => relative = path

\* what follows position i of s, without one separator at its start
After(s, i) ==
    IF i <= Len(s) /\ s[i] = "/" THEN Slice(s, i + 1, Len(s) + 1)
    ELSE Slice(s, i, Len(s) + 1)

\* C13: with the backslashes of both written as slashes, getRelativePath
\* returns what follows the base, without one leading slash, when the path
\* starts with the base, and otherwise what follows the first occurrence of
\* the base as a path segment with a slash after it, and that slash.
C13_RemainderAfterBase ==
    pc = "getRelativePath" =>
        IF startsWith(Slashed(path), Slashed(base))
        THEN relative = After(Slashed(path), Len(base) + 1)
        ELSE LET followed == {i \in SegmentPositions :
                                 /\ i + Len(base) <= Len(path)
                                 /\ Slashed(path)[i + Len(base)] = "/"}
             IN  followed # {} =>
                    relative = After(Slashed(path), Min(followed) + Len(base))

\* the paths of ps that are in directory d, in the order of ps
PathsIn(ps, d) == SelectSeqOp(ps, LAMBDA p : DirectoryOf(p) = d)

\* C14: groupPathsByDirectory partitions the paths: it returns a mapping in
\* which every path is in the list of its directory (of 'root' when it has
\* none), every list holds the paths of its key in the order of the input,
\* no key comes twice and no list is empty.
C14_GroupsPartitionPaths ==
    pc = "groupPathsByDirectory" =>
        /\ ~thrown
        /\ \A k \in 1..Len(groups) :
              /\ groups[k].list # <<>>
              /\ groups[k].list = PathsIn(given, groups[k].key)
        /\ \A i, j \in 1..Len(groups) :
              groups[i].key = groups[j].key => i = j
        /\ \A n \in 1..Len(given) :
              \E k \in 1..Len(groups) : groups[k].key = DirectoryOf(given[n])

\* the directories of ps in the order of their first appearance
FirstAppearance(ps) ==
    LET f[k \in 0..Len(ps)] ==
            IF k = 0 THEN <<>>
            ELSE IF DirectoryOf(ps[k]) \in Range(f[k - 1]) THEN f[k - 1]
            ELSE Append(f[k - 1], DirectoryOf(ps[k]))
    IN  f[Len(ps)]

\* C15: the mapping that groupPathsByDirectory returns enumerates its keys
\* in the order in which the directories first appear in the input.
C15_KeysInFirstAppearanceOrder ==
    (pc = "groupPathsByDirectory" /\ ~thrown) =>
        [k \in 1..Len(groups) |-> groups[k].key] = FirstAppearance(given)

\* C20: no call throws, whatever the names of the directories are.
C20_NoCallThrows == ~thrown

\* the date of a path for the engine and the time zone of the call
DateOf(p) == extractDateFromPath(p, engine, timezone)

\* a path of date d may stand before a path of date e in the sorted array
MayPrecede(d, e) ==
    IF d = Null THEN (order = "asc" \/ e = Null)
    ELSE IF e = Null THEN order = "desc"
    ELSE IF order = "desc" THEN d.time >= e.time
    ELSE d.time <= e.time

\* neither must stand before the other: both are no date, or equal dates
Tied(d, e) == MayPrecede(d, e) /\ MayPrecede(e, d)

\* the paths of ps, whose dates are ds, that are tied with date d
TiedWith(ps, ds, d) ==
    LET f[k \in 0..Len(ps)] ==
            IF k = 0 THEN <<>>
            ELSE IF Tied(ds[k], d) THEN Append(f[k - 1], ps[k]) ELSE f[k - 1]
    IN  f[Len(ps)]

\* C16: sortPathsByDate returns a permutation of the paths (the paths that
\* are tied with a path are the same, in the same order, before and after,
\* and every path is tied with itself): with 'desc' the
\* dated paths most recent first and then the paths without a date, with
\* 'asc' the paths without a date and then the dated paths oldest first;
\* paths with equal dates, and paths without a date, keep their input order.
C16_SortedByDateStable ==
    pc = "sortPathsByDate" =>
        \A dg \in {[k \in 1..Len(given) |-> DateOf(given[k])]} :
        \A ds \in {[k \in 1..Len(sorted) |-> DateOf(sorted[k])]} :
            /\ Len(sorted) = Len(given)
            /\ Range(sorted) = Range(given)
            /\ \A k, l \in 1..Len(sorted) :
                  k < l => MayPrecede(ds[k], ds[l])
            /\ \A k \in 1..Len(given) :
                  TiedWith(sorted, ds, dg[k]) = TiedWith(given, dg, dg[k])

\* two paths of the same date were passed behind a path without a date and
\* before an older one, and sorted with 'desc'
C16_Witness ==
    /\ pc = "sortPathsByDate"
    /\ order = "desc"
    /\ Len(given) = 4
    /\ DateOf(given[1]) = Null
    /\ DateOf(given[2]) # Null
    /\ DateOf(given[2]) = DateOf(given[4])
    /\ given[2] # given[4]
    /\ DateOf(given[3]) # Null
    /\ DateOf(given[3]).time < DateOf(given[2]).time
    /\ sorted = <<given[2], given[4], given[3], given[1]>>

\* C17: sortPathsByDate leaves its argument alone: after the call the
\* caller's array holds the same paths in the same order as before.
C17_SortLeavesArgument ==
    pc = "sortPathsByDate" => paths = given

\* the number of whole seconds by which the date lies before now
Elapsed ==
    CHOOSE e \in (now.seconds - date.seconds - 1)..(now.seconds - date.seconds) :
        LET rest == 1000 * (now.seconds - date.seconds - e)
                        + now.millis - date.millis
        IN  0 <= rest /\ rest < 1000

\* the units of the claim, with their thresholds in seconds
Units ==
    { <<"year", 31536000>>, <<"month", 2592000>>, <<"week", 604800>>,
      <<"day", 86400>>, <<"hour", 3600>>, <<"minute", 60>> }

UnitName(u) ==
    CASE u[1] = "year"   -> <<"y", "e", "a", "r">>
      [] u[1] = "month"  -> <<"m", "o", "n", "t", "h">>
      [] u[1] = "week"   -> <<"w", "e", "e", "k">>
      [] u[1] = "day"    -> <<"d", "a", "y">>
      [] u[1] = "hour"   -> <<"h", "o", "u", "r">>
      [] u[1] = "minute" -> <<"m", "i", "n", "u", "t", "e">>

\* C19: for a date e >= 0 whole seconds before now, getTimeAgo returns
\* 'just now' when e < 60 and otherwise '<count> <unit> ago', with the
\* largest unit whose threshold is <= e, count = floor(e / threshold), and
\* an s after the unit exactly when count > 1; 86400 s is '1 day ago'.
C19_LargestUnitAndCount ==
    (pc = "getTimeAgo" /\ Elapsed >= 0) =>
        /\ Elapsed < 60 => ago = JustNow
        /\ Elapsed >= 60 =>
              \E u \in Units :
                  /\ u[2] <= Elapsed
                  /\ \A v \in Units : v[2] <= Elapsed => v[2] <= u[2]
                  /\ ago = ToString(Elapsed \div u[2]) \o <<" ">> \o UnitName(u)
                              \o (IF Elapsed \div u[2] > 1 THEN <<"s">> ELSE <<>>)
                              \o Ago
        /\ Elapsed = 86400 => ago = <<"1", " ", "d", "a", "y", " ", "a", "g", "o">>

\* a date less than a millisecond short of two months before now is
\* '1 month ago'
C19_Witness ==
    /\ pc = "getTimeAgo"
    /\ now.seconds - date.seconds = 5184000
    /\ now.millis < date.millis
    /\ Elapsed = 5183999
    /\ ago = <<"1", " ", "m", "o", "n", "t", "h", " ", "a", "g", "o">>


(***************************************************************************)
(* C18: for every content, the report of validateMarkdown has isValid      *)
(* true exactly when errors is empty, and the warnings have no part in     *)
(* it: isValid is what the content test and the front matter test say,     *)
(* whatever the number and the content of the warnings.                    *)
(***************************************************************************)
C18_ValidIffNoErrors ==
    pc = "validateMarkdown" =>
        /\ report.isValid <=> Len(report.errors) = 0
        /\ report.isValid <=>
               (isValidMarkdown(text) /\ validateFrontmatter(text).isValid)

\* a report with warnings and with an error
C18_Witness ==
    /\ pc = "validateMarkdown"
    /\ Len(report.warnings) >= 2
    /\ Len(report.errors) = 1
    /\ ~report.isValid

C18_ValidWithWarnings ==
    /\ pc = "validateMarkdown"
    /\ Len(report.warnings) >= 2
    /\ report.isValid

(***************************************************************************)
(* C30: for every filename, the result of filenameToSlug holds only the    *)
(* characters a-z, 0-9 and '-', and no two hyphens in a row.               *)
(***************************************************************************)
C30_SlugCharacters ==
    pc = "filenameToSlug" =>
        /\ \A k \in 1..Len(slug) :
              IsLower(slug[k]) \/ IsDigit(slug[k]) \/ slug[k] = "-"
        /\ ~includes(slug, <<"-", "-">>)

\* a filename with a capital, with a separator next to white space, and a slug
\* that holds a hyphen
C30_Witness ==
    /\ pc = "filenameToSlug"
    /\ \E k \in 1..Len(filename) : IsUpper(filename[k])
    /\ \E k \in 1..(Len(filename) - 1) :
          filename[k] \in {"_", "-"} /\ IsSpace(filename[k + 1])
    /\ includes(slug, <<"-">>)
    /\ \E k \in 1..Len(slug) : IsLower(slug[k])

(***************************************************************************)
(* C28: for every content, validateMarkdown(content).isValid equals        *)
(* isValidMarkdown(content): validateFrontmatter never reports isValid     *)
(* false, and errors holds nothing but, at most once, the message          *)
(* 'Content does not appear to be valid markdown'.                         *)
(***************************************************************************)
C28_ValidIsValidMarkdown ==
    pc = "validateMarkdown" =>
        /\ report.isValid = isValidMarkdown(text)
        /\ frontmatterResult.isValid
        /\ Len(report.errors) <= 1
        /\ \A k \in 1..Len(report.errors) : report.errors[k] = ContentError

\* front matter whose only key is __proto__, which is not kept, and a warning
C28_Witness ==
    /\ pc = "validateMarkdown"
    /\ frontmatterResult.hasFrontmatter
    /\ \E k \in 1..Len(KeyedLines(text)) : KeyOf(KeyedLines(text)[k]) = ProtoKey
    /\ DOMAIN frontmatterResult.frontmatter = {}
    /\ Len(report.warnings) >= 1

\* front matter on content that is no markdown
C28_InvalidWithFrontmatter ==
    /\ pc = "validateMarkdown"
    /\ frontmatterResult.hasFrontmatter
    /\ ~report.isValid

(***************************************************************************)
(* C26: validateMarkdown counts the words of the content without counting  *)
(* markdown markers as words: for '# Title\n[Link](https://example.com)'   *)
(* the report has isValid true, stats.wordCount 2 and stats.headingCount   *)
(* 1.                                                                      *)
(***************************************************************************)
C26_ReadmeStats ==
    (pc = "validateMarkdown" /\ text = ReadmeContent) =>
        /\ report.isValid
        /\ report.stats.wordCount = 2
        /\ report.stats.headingCount = 1

\* a cell of a separator line: hyphens, with a colon before or after or both
IsSeparatorCell(cell) ==
    LET c     == trim(cell)
        first == IF Len(c) >= 1 /\ c[1] = ":" THEN 2 ELSE 1
        last  == IF Len(c) >= first /\ c[Len(c)] = ":" THEN Len(c) - 1 ELSE Len(c)
    IN  first <= last /\ \A k \in first..last : c[k] = "-"

\* a table separator line: cells of hyphens between pipes, the pipe before the
\* first cell and the one after the last cell being optional
IsTableSeparator(line) ==
    LET cells == split(line, "|")
        n     == Len(cells)
        first == IF trim(cells[1]) = <<>> THEN 2 ELSE 1
        last  == IF trim(cells[n]) = <<>> THEN n - 1 ELSE n
    IN  n >= 2 /\ first <= last /\ \A k \in first..last : IsSeparatorCell(cells[k])

\* what the claim says of the separator at line i
ClaimedResult(lines, i) ==
    LET header == IF i > 1 THEN trim(lines[i - 1]) ELSE <<>>
    IN  IF i = 1 \/ header = <<>> \/ ~includes(header, <<"|">>)
        THEN [lineNumber |-> i, isValid |-> FALSE,
              error |-> "Table separator without header row"]
        ELSE IF ColumnCount(header) # ColumnCount(trim(lines[i]))
        THEN [lineNumber |-> i, isValid |-> FALSE,
              error |-> "Column count mismatch: header has "]
        ELSE [lineNumber |-> i, isValid |-> TRUE, error |-> NoError]

ClaimedResults(content) ==
    LET lines == split(content, "\n")
        claimed[i \in 0..Len(lines)] ==
            IF i = 0 THEN <<>>
            ELSE IF IsTableSeparator(trim(lines[i]))
            THEN Append(claimed[i - 1], ClaimedResult(lines, i))
            ELSE claimed[i - 1]
    IN  claimed[Len(lines)]

\* a result of the code, its error cut down to the text before the counts
Shortened(r) ==
    [lineNumber |-> r.lineNumber, isValid |-> r.isValid,
     error |-> IF r.isValid THEN NoError ELSE r.error[1]]

(***************************************************************************)
(* C25: validateMarkdownTables(content) returns one result per table       *)
(* separator line, in increasing 1-based lineNumber: invalid with 'Table   *)
(* separator without header row' when the separator is the first line or   *)
(* the line before it is empty or has no pipe, invalid with a column count *)
(* mismatch when the numbers of non-blank cells of the header line and of  *)
(* the separator differ, and valid otherwise.                              *)
(***************************************************************************)
C25_OneResultPerSeparator ==
    pc = "validateMarkdownTables" =>
        /\ Len(tableResults) = Len(ClaimedResults(text))
        /\ \A k \in 1..Len(tableResults) :
              Shortened(tableResults[k]) = ClaimedResults(text)[k]

(***************************************************************************)
(* C29: for every date after now, however far, getTimeAgo returns exactly  *)
(* 'just now', and never a string with a count that is negative or zero.   *)
(***************************************************************************)
C29_FutureIsJustNow ==
    (pc = "getTimeAgo" /\ Elapsed < 0) => ago = JustNow

\* a date MaxFutureYears years after now
C29_Witness ==
    /\ pc = "getTimeAgo"
    /\ Elapsed <= -(MaxFutureYears * 31536000)
    /\ ago = JustNow

\* the last segment of the path p, written with slashes or with backslashes,
\* without its extension
LastSegmentName(p) ==
    LET seps == {i \in 1..Len(p) : p[i] \in {"/", Backslash}}
        from == IF seps = {} THEN 1 ELSE Max(seps) + 1
    IN  RemoveExtension(Slice(p, from, Len(p) + 1))

(***************************************************************************)
(* C27: extractDateFromPath takes the date from the file name only (the    *)
(* last segment of the path, without its extension): when the file name    *)
(* holds no date, null is returned whatever the directories are called,    *)
(* for paths written with slashes and with backslashes alike.              *)
(***************************************************************************)
C27_DateFromFilenameOnly ==
    (/\ pc = "extractDateFromPath"
     /\ \A k \in 1..Len(patterns) :
           match(LastSegmentName(path), patterns[k]) = <<>>)
        => extracted = Null

\* a letter stands before position k of s in the word of position k
LetterBefore(s, k) ==
    \E j \in 1..(k - 1) :
        /\ IsLower(s[j]) \/ IsUpper(s[j])
        /\ \A h \in j..(k - 1) : ~IsSpace(s[h])

\* out is s with the first letter of every word between white space in upper
\* case and no other letter changed: the character that starts a word is in
\* upper case, a character after a letter of its word is as it was, and a
\* letter after nothing but other characters of its word is one or the other
FirstLettersUpper(s, out) ==
    /\ Len(out) = Len(s)
    /\ \A k \in 1..Len(s) :
          IF k = 1 \/ IsSpace(s[k - 1]) THEN out[k] = UpperChar(s[k])
          ELSE IF LetterBefore(s, k) THEN out[k] = s[k]
          ELSE out[k] \in {s[k], UpperChar(s[k])}

\* the file name without its extension and without a date at its start
TitleStem(name) ==
    LET stem == RemoveExtension(name)
    IN  Slice(stem, DatePrefixEnd(stem), Len(stem) + 1)

(***************************************************************************)
(* C21: filenameToTitle(filename) strips the extension and a YYYY-MM-DD    *)
(* prefix (with a '_' or '-' after it or not), turns hyphens and           *)
(* underscores into spaces, and puts in upper case the first letter of     *)
(* every word between white space and no other character: a letter after  *)
(* a '.', an apostrophe or another character inside a word stays as it     *)
(* was.                                                                    *)
(***************************************************************************)
C21_TitleCapitalizesWords ==
    pc = "filenameToTitle" =>
        FirstLettersUpper(
            trim([k \in 1..Len(TitleStem(filename)) |->
                     IF TitleStem(filename)[k] \in {"-", "_"} THEN " "
                     ELSE TitleStem(filename)[k]]),
            title)

\* the labels of the claim
RecognizedLabels ==
    { <<"D", "a", "t", "e", ":">>,
      <<"C", "r", "e", "a", "t", "e", "d", ":">>,
      <<"C", "r", "e", "a", "t", "e", "d", " ", "A", "t", ":">>,
      <<"C", "r", "e", "a", "t", "e", "d", " ", "O", "n", ":">>,
      <<"C", "r", "e", "a", "t", "e", "d", " ", "D", "a", "t", "e",
         ":">>,
      <<"C", "r", "e", "a", "t", "e", "d", " ", "T", "i", "m", "e",
         ":">>,
      <<"*", "*", "D", "a", "t", "e", ":", "*", "*">> }

\* the label l stands at position i of s
LabelAt(s, i, l) == i + Len(l) - 1 <= Len(s) /\ Slice(s, i, i + Len(l)) = l

\* the text after the first label of s, up to the end of its line; <<>> when
\* s holds no label
AfterFirstLabel(s) ==
    LET at == {i \in 1..Len(s) : \E l \in RecognizedLabels : LabelAt(s, i, l)}
        i  == Min(at)
        e  == Max({i + Len(l) : l \in {r \in RecognizedLabels : LabelAt(s, i, r)}})
    IN  IF at = {} THEN <<>>
        ELSE Slice(s, e, RunEnd(s, e, LAMBDA c : ~IsLineTerminator(c)))

(***************************************************************************)
(* C22: getCreationDate(text) returns undefined for every text that holds  *)
(* none of the labels Date:, Created:, Created At:, Created On:, Created   *)
(* Date:, Created Time: and **Date:**, and when what follows the label on  *)
(* the first line with a label is a date for no engine; it never returns   *)
(* an invalid date.                                                        *)
(***************************************************************************)
C22_UndefinedWithoutLabel ==
    pc = "getCreationDate" =>
        /\ (\A l \in RecognizedLabels : ~includes(text, l))
              => creationDate = NoDate
        /\ (\A eng \in Engines :
               TimesOf(trim(AfterFirstLabel(text)), eng) = {NaN})
              => creationDate = NoDate
        /\ creationDate # NoDate => creationDate.time # NaN

\* the positions of s at which a fence starts, every backtick of s being one
\* of the three of a fence
FencesOf(s) ==
    {i \in 1..(Len(s) - 2) :
        /\ Slice(s, i, i + 3) = Fence
        /\ Cardinality({j \in 1..(i - 1) : s[j] = Backtick}) % 3 = 0}

\* the k-th fence of s
FenceOf(s, k) ==
    CHOOSE i \in FencesOf(s) : Cardinality({j \in FencesOf(s) : j < i}) = k - 1

\* s holds fenced blocks and nothing doubtful: an even number of fences,
\* each at the start of a line and not next to another backtick, and the
\* closing ones at the end of their line
WellFenced(s) ==
    /\ Cardinality({j \in 1..Len(s) : s[j] = Backtick})
           = 3 * Cardinality(FencesOf(s))
    /\ Cardinality(FencesOf(s)) % 2 = 0
    /\ \A i \in FencesOf(s) :
          /\ AtLineStart(s, i)
          /\ i + 3 <= Len(s) => s[i + 3] # Backtick
    /\ \A k \in 1..(Cardinality(FencesOf(s)) \div 2) :
          LET c == FenceOf(s, 2 * k)
          IN  c + 3 > Len(s) \/ s[c + 3] = "\n"

\* the k-th fenced block of s: the token after its opening fence, or 'text',
\* and what stands between the line of the opening fence and the closing fence
FencedBlock(s, k) ==
    LET o     == FenceOf(s, 2 * k - 1)
        c     == FenceOf(s, 2 * k)
        token == Slice(s, o + 3, RunEnd(s, o + 3, LAMBDA ch : ~IsSpace(ch)))
        n     == RunEnd(s, o + 3, LAMBDA ch : ch # "\n")
    IN  [language |-> IF token = <<>> THEN TextLanguage ELSE token,
         content  |-> trim(Slice(s, n + 1, c))]

(***************************************************************************)
(* C24: extractCodeBlocks(text) returns, in the order of the document, one *)
(* entry per fenced block between an opening and a closing fence: its      *)
(* language is the token after the opening fence, or 'text' without one,   *)
(* and its content is the trimmed interior of that block, without a fence  *)
(* and without text from outside a fenced block.                           *)
(***************************************************************************)
C24_OneEntryPerFencedBlock ==
    (pc = "extractCodeBlocks" /\ WellFenced(text)) =>
        /\ Len(codeBlocks) = Cardinality(FencesOf(text)) \div 2
        /\ \A k \in 1..Len(codeBlocks) : codeBlocks[k] = FencedBlock(text, k)

(***************************************************************************)
(* C23: getFirstParagraph(text) removes headings, code, the markers of     *)
(* bold and italic and the syntax of links, splits what remains on blank   *)
(* lines and returns the first block that is not empty, without white      *)
(* space before or after it; it returns the empty string when nothing      *)
(* remains.                                                                *)
(***************************************************************************)
C23_FirstBlockTrimmed ==
    pc = "getFirstParagraph" =>
        /\ firstParagraph = trim(firstParagraph)
        /\ firstParagraph = <<>> <=> CleanedOf(text) = <<>>

====
